---- MODULE Spec2Model ----
(***************************************************************************)
(* In-memory banking ledger: accounts, deferred cashback, account merging  *)
(* and point-in-time balance queries.  The repository holds four complete  *)
(* implementations of the same interface (src/Shivani, src/DaQuawn,        *)
(* src/Andrea, src/Yejin); each is modelled from its own source and the    *)
(* variable `variant` says which one a behaviour runs.                     *)
(***************************************************************************)
EXTENDS Integers, Sequences, FiniteSets, TLC

VARIABLES
    variant,            \* which BankingSystemImpl the behaviour runs
    accounts,           \* self.accounts / self.whole_accounts : id -> account_info
    archived_accounts,  \* DaQuawn: self.archived_accounts : id -> archived bundle
    cashback_events,    \* Andrea: self.cashback_events, in insertion order
    payment_counter,    \* Shivani: self.payment_counter
    withdraw_count,     \* Andrea: self.withdraw_count
    clock,              \* the caller's logical time (timestamp of its next call)
    credit_log,         \* history: every execution of `balance += cashback`
    issued,             \* history: every successful pay
    merges,             \* history: every successful merge_accounts
    totals,             \* history: sums of successful deposits and pays
    creations,          \* history: every successful create_account
    ledger,             \* history: every amount a successful call moved
    calls               \* history: number of successful state-changing calls

vars == <<variant, accounts, archived_accounts, cashback_events, payment_counter,
          withdraw_count, clock, credit_log, issued, merges, totals, creations, ledger, calls>>

----------------------------------------------------------------------------
(* Bounds of the model and inputs of the caller *)

MaxCalls == 5

MILLISECONDS_IN_1_DAY == 86400000

Variants == {"Shivani", "DaQuawn", "Andrea", "Yejin"}
IdOrder == <<"a", "b">>
AccountIds == {IdOrder[i] : i \in 1..Len(IdOrder)}
DepositAmounts == {100}
PayAmounts == {100}
TransferAmounts == {2}
Absent == 0 - 1

Ticks == {0, 1}
Days == {0, 1}
Times == {d * MILLISECONDS_IN_1_DAY + t : d \in Days, t \in Ticks}

----------------------------------------------------------------------------
(* Generic helpers *)

RECURSIVE SumAmounts(_)
SumAmounts(txs) ==
    IF txs = <<>> THEN 0 ELSE Head(txs).amount + SumAmounts(Tail(txs))

RECURSIVE Flatten(_)
Flatten(seqs) ==
    IF seqs = <<>> THEN <<>> ELSE Head(seqs) \o Flatten(Tail(seqs))

PutKey(dict, key, value) ==
    [k \in DOMAIN dict \cup {key} |-> IF k = key THEN value ELSE dict[k]]

\* A removal that leaves the key in the dictionary.
DelKey_kept(dict, key) == dict

DelKey(dict, key) ==
    [k \in DOMAIN dict \ {key} |-> dict[k]]

StartsWith(s, prefix) ==
    Len(s) >= Len(prefix) /\ SubSeq(s, 1, Len(prefix)) = prefix

\* f"payment{n}"
PaymentId(n) == "payment" \o ToString(n)

\* A transaction dictionary; keys a variant does not set hold "" / Absent.
Tx(timestamp, operation, amount) ==
    [timestamp |-> timestamp, operation |-> operation, amount |-> amount,
     payment_id |-> "", deposited |-> FALSE, merged_from |-> "", merged_at |-> Absent]

CashbackTx(timestamp, amount, payment_id, deposited) ==
    [Tx(timestamp, "cashback", amount) EXCEPT !.payment_id = payment_id,
                                               !.deposited = deposited]

Account(balance, transactions, creation_time) ==
    [balance |-> balance, transactions |-> transactions,
     creation_time |-> creation_time, merged_at |-> Absent]

\* History record of one `balance += cashback`: `at` is the argument of the drain
\* that did it, `called_at` the timestamp of the call that ran the drain.
Credit(payment_id, account_id, amount, due, at) ==
    [payment_id |-> payment_id, account_id |-> account_id, amount |-> amount,
     due |-> due, at |-> at, called_at |-> Absent]

\* Results: None is ok = FALSE; a value sits in the field of its type.
None == [ok |-> FALSE, int |-> 0, str |-> "", list |-> <<>>]
IntResult(n) == [ok |-> TRUE, int |-> n, str |-> "", list |-> <<>>]
StrResult(s) == [ok |-> TRUE, int |-> 0, str |-> s, list |-> <<>>]
BoolResult(b) == [ok |-> b, int |-> 0, str |-> "", list |-> <<>>]
ListResult(l) == [ok |-> TRUE, int |-> 0, str |-> "", list |-> l]

Ret(self, result, credits) == [self |-> self, result |-> result, credits |-> credits]

----------------------------------------------------------------------------
(* The object: the fields of a BankingSystemImpl instance *)

\* A comparison of two ids that never finds them equal.
same_account_never(id_1, id_2) == FALSE

\* if account_id_1 == account_id_2: return False
same_account(id_1, id_2) == id_1 = id_2

Self == [accounts |-> accounts, archived_accounts |-> archived_accounts,
         cashback_events |-> cashback_events, payment_counter |-> payment_counter,
         withdraw_count |-> withdraw_count]

Exists(self, account_id) == account_id \in DOMAIN self.accounts

----------------------------------------------------------------------------
(* Cashback processing *)

\* A drain test that misses a cashback on the very tick it falls due.
cashback_is_due_late(tr, timestamp) ==
    /\ tr.operation = "cashback"
    /\ tr.timestamp < timestamp
    /\ ~tr.deposited

\* A drain test that does not look at the deposited flag.
cashback_is_due_again(tr, timestamp) ==
    /\ tr.operation = "cashback"
    /\ tr.timestamp <= timestamp

\* The test of the drain loop on one transaction.
cashback_is_due(tr, timestamp) ==
    /\ tr.operation = "cashback"
    /\ tr.timestamp <= timestamp
    /\ ~tr.deposited

\* A drain loop that adds every due amount to the balance twice.
deposit_due_cashbacks_twice(acc, timestamp) ==
    LET Due(tr) == cashback_is_due(tr, timestamp)
    IN [acc EXCEPT
          !.balance = @ + 2 * SumAmounts(SelectSeq(acc.transactions, Due)),
          !.transactions = [i \in 1..Len(@) |->
                               IF Due(@[i]) THEN [@[i] EXCEPT !.deposited = TRUE]
                               ELSE @[i]]]

\* The body of the drain loop on one account: balance += amount, deposited = True.
deposit_due_cashbacks(acc, timestamp) ==
    LET Due(tr) == cashback_is_due(tr, timestamp)
    IN [acc EXCEPT
          !.balance = @ + SumAmounts(SelectSeq(acc.transactions, Due)),
          !.transactions = [i \in 1..Len(@) |->
                               IF Due(@[i]) THEN [@[i] EXCEPT !.deposited = TRUE]
                               ELSE @[i]]]

\* One record per execution of `balance += amount` on this account.
credits_of_account(acc, account_id, timestamp) ==
    LET Due(tr) == cashback_is_due(tr, timestamp)
        due == SelectSeq(acc.transactions, Due)
    IN [i \in 1..Len(due) |->
           Credit(due[i].payment_id, account_id, due[i].amount, due[i].timestamp,
                  timestamp)]

\* Shivani: merged accounts are skipped.
Shivani_skips(acc) == acc.merged_at # Absent

Shivani_process_cashbacks(self, timestamp) ==
    LET accs == self.accounts
        ids == SelectSeq(IdOrder, LAMBDA id : id \in DOMAIN accs /\ ~Shivani_skips(accs[id]))
    IN Ret([self EXCEPT !.accounts =
                [id \in DOMAIN accs |->
                    IF Shivani_skips(accs[id]) THEN accs[id]
                    ELSE deposit_due_cashbacks(accs[id], timestamp)]],
           None,
           Flatten([i \in 1..Len(ids) |->
                       credits_of_account(accs[ids[i]], ids[i], timestamp)]))

\* DaQuawn and Yejin: every account of whole_accounts.
DaQuawn_process_cashbacks(self, timestamp) ==
    LET accs == self.accounts
        ids == SelectSeq(IdOrder, LAMBDA id : id \in DOMAIN accs)
    IN Ret([self EXCEPT !.accounts =
                [id \in DOMAIN accs |-> deposit_due_cashbacks(accs[id], timestamp)]],
           None,
           Flatten([i \in 1..Len(ids) |->
                       credits_of_account(accs[ids[i]], ids[i], timestamp)]))

\* Andrea: scheduled events (account_id, cashback_amt, payment_id) keyed by time.
Andrea_event_applies(accs, ev) == ev.account_id \in DOMAIN accs

RECURSIVE Andrea_apply_events(_, _)
Andrea_apply_events(accs, events) ==
    IF events = <<>> THEN accs
    ELSE LET ev == Head(events)
             after ==
                 IF Andrea_event_applies(accs, ev)
                 THEN [accs EXCEPT
                         ![ev.account_id].balance = @ + ev.amount,
                         ![ev.account_id].transactions =
                             Append(@, CashbackTx(ev.time, ev.amount, ev.payment_id, TRUE))]
                 ELSE accs
         IN Andrea_apply_events(after, Tail(events))

RECURSIVE Andrea_event_credits(_, _, _)
Andrea_event_credits(accs, events, timestamp) ==
    IF events = <<>> THEN <<>>
    ELSE LET ev == Head(events)
         IN (IF Andrea_event_applies(accs, ev)
             THEN <<Credit(ev.payment_id, ev.account_id, ev.amount, ev.time, timestamp)>>
             ELSE <<>>) \o Andrea_event_credits(accs, Tail(events), timestamp)

Andrea_is_pending(entry, timestamp) == entry.time <= timestamp

Andrea_process_cashback(self, timestamp) ==
    LET Pending(entry) == Andrea_is_pending(entry, timestamp)
        pending == SelectSeq(self.cashback_events, Pending)
        events == Flatten([i \in 1..Len(pending) |->
                      [j \in 1..Len(pending[i].events) |->
                          [time |-> pending[i].time,
                           account_id |-> pending[i].events[j].account_id,
                           amount |-> pending[i].events[j].amount,
                           payment_id |-> pending[i].events[j].payment_id]]])
    IN Ret([self EXCEPT
              !.accounts = Andrea_apply_events(self.accounts, events),
              !.cashback_events = SelectSeq(self.cashback_events,
                                            LAMBDA entry : ~Pending(entry))],
           None,
           Andrea_event_credits(self.accounts, events, timestamp))

process_cashbacks(self, timestamp) ==
    CASE variant = "Shivani" -> Shivani_process_cashbacks(self, timestamp)
      [] variant = "Andrea" -> Andrea_process_cashback(self, timestamp)
      [] OTHER -> DaQuawn_process_cashbacks(self, timestamp)

----------------------------------------------------------------------------
(* create_account *)

Shivani_create_account(self, timestamp, account_id) ==
    IF Exists(self, account_id) /\ self.accounts[account_id].merged_at = Absent
    THEN Ret(self, BoolResult(FALSE), <<>>)
    ELSE Ret([self EXCEPT !.accounts = PutKey(@, account_id, Account(0, <<>>, timestamp))],
             BoolResult(TRUE), <<>>)

DaQuawn_create_account(self, timestamp, account_id) ==
    IF Exists(self, account_id)
    THEN Ret(self, BoolResult(FALSE), <<>>)
    ELSE Ret([self EXCEPT !.accounts =
                 PutKey(@, account_id,
                        Account(0, <<Tx(timestamp, "created account", 0)>>, timestamp))],
             BoolResult(TRUE), <<>>)

Yejin_create_account(self, timestamp, account_id) ==
    IF Exists(self, account_id)
    THEN Ret(self, BoolResult(FALSE), <<>>)
    ELSE Ret([self EXCEPT !.accounts =
                 PutKey(@, account_id,
                        Account(0, <<Tx(timestamp, "created account", 0)>>, Absent))],
             BoolResult(TRUE), <<>>)

Andrea_create_account(self, timestamp, account_id) ==
    LET d == Andrea_process_cashback(self, timestamp)
    IN IF Exists(d.self, account_id)
       THEN Ret(d.self, BoolResult(FALSE), d.credits)
       ELSE Ret([d.self EXCEPT !.accounts =
                    PutKey(@, account_id,
                           Account(0, <<Tx(timestamp, "created", 0)>>, timestamp))],
                BoolResult(TRUE), d.credits)

create_account(self, timestamp, account_id) ==
    CASE variant = "Shivani" -> Shivani_create_account(self, timestamp, account_id)
      [] variant = "DaQuawn" -> DaQuawn_create_account(self, timestamp, account_id)
      [] variant = "Andrea" -> Andrea_create_account(self, timestamp, account_id)
      [] OTHER -> Yejin_create_account(self, timestamp, account_id)

----------------------------------------------------------------------------
(* deposit *)

\* A deposit that is recorded but not added to the balance.
credit_nothing(balance, amount) == balance

\* acc["balance"] += amount
credit(balance, amount) == balance + amount

Shivani_deposit(self, timestamp, account_id, amount) ==
    LET d == process_cashbacks(self, timestamp)
    IN IF ~Exists(d.self, account_id) THEN Ret(d.self, None, d.credits)
       ELSE IF d.self.accounts[account_id].merged_at # Absent
       THEN Ret(d.self, None, d.credits)
       ELSE LET after == [d.self EXCEPT
                            !.accounts[account_id].balance = credit(@, amount),
                            !.accounts[account_id].transactions =
                                Append(@, Tx(timestamp, "deposit", amount))]
            IN Ret(after, IntResult(after.accounts[account_id].balance), d.credits)

\* DaQuawn, Yejin and Andrea share this text.
DaQuawn_deposit(self, timestamp, account_id, amount) ==
    LET d == process_cashbacks(self, timestamp)
    IN IF ~Exists(d.self, account_id) THEN Ret(d.self, None, d.credits)
       ELSE LET after == [d.self EXCEPT
                            !.accounts[account_id].transactions =
                                Append(@, Tx(timestamp, "deposited", amount)),
                            !.accounts[account_id].balance = credit(@, amount)]
            IN Ret(after, IntResult(after.accounts[account_id].balance), d.credits)

deposit(self, timestamp, account_id, amount) ==
    IF variant = "Shivani" THEN Shivani_deposit(self, timestamp, account_id, amount)
    ELSE DaQuawn_deposit(self, timestamp, account_id, amount)

----------------------------------------------------------------------------
(* transfer *)

\* A funds check that lets every amount through.
insufficient_funds_never(acc, amount) == FALSE

\* if src["balance"] < amount: return None
insufficient_funds(acc, amount) == acc.balance < amount

\* A debit that leaves the source balance as it was.
debit_nothing(balance, amount) == balance

\* src["balance"] -= amount
debit(balance, amount) == balance - amount

Shivani_transfer(self, timestamp, source_account_id, target_account_id, amount) ==
    LET d == process_cashbacks(self, timestamp)
    IN IF \/ ~Exists(d.self, source_account_id)
          \/ ~Exists(d.self, target_account_id)
          \/ same_account(source_account_id, target_account_id)
       THEN Ret(d.self, None, d.credits)
       ELSE IF \/ d.self.accounts[source_account_id].merged_at # Absent
               \/ d.self.accounts[target_account_id].merged_at # Absent
       THEN Ret(d.self, None, d.credits)
       ELSE IF insufficient_funds(d.self.accounts[source_account_id], amount)
       THEN Ret(d.self, None, d.credits)
       ELSE LET after == [d.self EXCEPT
                   !.accounts[source_account_id].balance = debit(@, amount),
                   !.accounts[target_account_id].balance = @ + amount,
                   !.accounts[source_account_id].transactions =
                       Append(@, Tx(timestamp, "transfer_out", amount)),
                   !.accounts[target_account_id].transactions =
                       Append(@, Tx(timestamp, "transfer_in", amount))]
            IN Ret(after, IntResult(after.accounts[source_account_id].balance), d.credits)

\* DaQuawn, Yejin and Andrea share this text.
DaQuawn_transfer(self, timestamp, source_account_id, target_account_id, amount) ==
    LET d == process_cashbacks(self, timestamp)
    IN IF \/ ~Exists(d.self, source_account_id)
          \/ ~Exists(d.self, target_account_id)
          \/ same_account(source_account_id, target_account_id)
       THEN Ret(d.self, None, d.credits)
       ELSE IF insufficient_funds(d.self.accounts[source_account_id], amount)
       THEN Ret(d.self, None, d.credits)
       ELSE LET after == [d.self EXCEPT
                   !.accounts[source_account_id].transactions =
                       Append(@, Tx(timestamp, "transferred out", amount)),
                   !.accounts[source_account_id].balance = debit(@, amount),
                   !.accounts[target_account_id].transactions =
                       Append(@, Tx(timestamp, "transferred in", amount)),
                   !.accounts[target_account_id].balance = @ + amount]
            IN Ret(after, IntResult(after.accounts[source_account_id].balance), d.credits)

transfer(self, timestamp, source_account_id, target_account_id, amount) ==
    IF variant = "Shivani"
    THEN Shivani_transfer(self, timestamp, source_account_id, target_account_id, amount)
    ELSE DaQuawn_transfer(self, timestamp, source_account_id, target_account_id, amount)

----------------------------------------------------------------------------
(* pay *)

\* 2% of the amount, rounded down.
cashback_amount(amount) == (amount * 2) \div 100

Shivani_pay(self, timestamp, account_id, amount) ==
    LET d == process_cashbacks(self, timestamp)
    IN IF ~Exists(d.self, account_id) THEN Ret(d.self, None, d.credits)
       ELSE IF d.self.accounts[account_id].merged_at # Absent
       THEN Ret(d.self, None, d.credits)
       ELSE IF insufficient_funds(d.self.accounts[account_id], amount)
       THEN Ret(d.self, None, d.credits)
       ELSE LET payment_id == PaymentId(d.self.payment_counter)
                after == [d.self EXCEPT
                   !.payment_counter = @ + 1,
                   !.accounts[account_id].balance = @ - amount,
                   !.accounts[account_id].transactions =
                       @ \o <<Tx(timestamp, payment_id, amount),
                              CashbackTx(timestamp + MILLISECONDS_IN_1_DAY,
                                         cashback_amount(amount), payment_id, FALSE)>>]
            IN Ret(after, StrResult(payment_id), d.credits)

\* A count of the accounts that hold a payment instead of the payments.
DaQuawn_count_paying_accounts(accs) ==
    Cardinality({id \in DOMAIN accs :
                    \E i \in 1..Len(accs[id].transactions) :
                        StartsWith(accs[id].transactions[i].operation, "payment")})

\* The number of payment transactions held by the accounts of whole_accounts.
DaQuawn_count_payments(accs) ==
    LET ids == SelectSeq(IdOrder, LAMBDA id : id \in DOMAIN accs)
    IN Len(Flatten([i \in 1..Len(ids) |->
              SelectSeq(accs[ids[i]].transactions,
                        LAMBDA tr : StartsWith(tr.operation, "payment"))]))

\* DaQuawn and Yejin share this text.
DaQuawn_pay(self, timestamp, account_id, amount) ==
    LET d == process_cashbacks(self, timestamp)
    IN IF \/ ~Exists(d.self, account_id)
          \/ insufficient_funds(d.self.accounts[account_id], amount)
       THEN Ret(d.self, None, d.credits)
       ELSE LET num_payment == PaymentId(1 + DaQuawn_count_payments(d.self.accounts))
                after == [d.self EXCEPT
                   !.accounts[account_id].balance = @ - amount,
                   !.accounts[account_id].transactions =
                       @ \o <<Tx(timestamp, num_payment, amount),
                              CashbackTx(timestamp + MILLISECONDS_IN_1_DAY,
                                         cashback_amount(amount), num_payment, FALSE)>>]
            IN Ret(after, StrResult(num_payment), d.credits)

\* self.cashback_events[cashback_time].append(event), creating the key if needed.
Andrea_schedule(events, cashback_time, event) ==
    IF \E i \in 1..Len(events) : events[i].time = cashback_time
    THEN [i \in 1..Len(events) |->
             IF events[i].time = cashback_time
             THEN [events[i] EXCEPT !.events = Append(@, event)]
             ELSE events[i]]
    ELSE Append(events, [time |-> cashback_time, events |-> <<event>>])

Andrea_pay(self, timestamp, account_id, amount) ==
    LET d == process_cashbacks(self, timestamp)
    IN IF ~Exists(d.self, account_id) THEN Ret(d.self, None, d.credits)
       ELSE IF insufficient_funds(d.self.accounts[account_id], amount)
       THEN Ret(d.self, None, d.credits)
       ELSE LET payment_id == PaymentId(d.self.withdraw_count + 1)
                after == [d.self EXCEPT
                   !.accounts[account_id].balance = @ - amount,
                   !.withdraw_count = @ + 1,
                   !.accounts[account_id].transactions =
                       Append(@, [Tx(timestamp, "withdrawn", amount)
                                     EXCEPT !.payment_id = payment_id]),
                   !.cashback_events =
                       Andrea_schedule(@, timestamp + MILLISECONDS_IN_1_DAY,
                                       [account_id |-> account_id,
                                        amount |-> cashback_amount(amount),
                                        payment_id |-> payment_id])]
            IN Ret(after, StrResult(payment_id), d.credits)

pay(self, timestamp, account_id, amount) ==
    CASE variant = "Shivani" -> Shivani_pay(self, timestamp, account_id, amount)
      [] variant = "Andrea" -> Andrea_pay(self, timestamp, account_id, amount)
      [] OTHER -> DaQuawn_pay(self, timestamp, account_id, amount)

----------------------------------------------------------------------------
(* top_spenders *)

\* Position of an id in alphabetical order (IdOrder is sorted).
Rank(account_id) == CHOOSE i \in 1..Len(IdOrder) : IdOrder[i] = account_id

Shivani_is_outgoing(tr) ==
    tr.operation = "transfer_out" \/ StartsWith(tr.operation, "payment")

DaQuawn_is_outgoing(tr) ==
    tr.operation = "transferred out" \/ StartsWith(tr.operation, "payment")

Andrea_is_outgoing(tr) ==
    tr.operation \in {"transferred out", "paid", "withdrawn"}

is_outgoing(tr) ==
    CASE variant = "Shivani" -> Shivani_is_outgoing(tr)
      [] variant = "Andrea" -> Andrea_is_outgoing(tr)
      [] OTHER -> DaQuawn_is_outgoing(tr)

total_outgoing(acc) == SumAmounts(SelectSeq(acc.transactions, is_outgoing))

\* A ranking that keeps the accounts marked as merged.
ranked_accounts_with_merged(self) == DOMAIN self.accounts

\* The accounts that top_spenders ranks: Shivani skips merged accounts.
ranked_accounts(self) ==
    {id \in DOMAIN self.accounts :
        variant = "Shivani" => self.accounts[id].merged_at = Absent}

\* An order that breaks ties by descending id.
sorts_before_ties_descending(x, y) ==
    \/ x.total > y.total
    \/ x.total = y.total /\ Rank(x.account_id) > Rank(y.account_id)

\* sorted(..., key = (-total, account_id))
sorts_before(x, y) ==
    \/ x.total > y.total
    \/ x.total = y.total /\ Rank(x.account_id) < Rank(y.account_id)

RECURSIVE sorted_spenders(_)
sorted_spenders(entries) ==
    IF entries = {} THEN <<>>
    ELSE LET first == CHOOSE x \in entries :
                          \A y \in entries \ {x} : sorts_before(x, y)
         IN <<first>> \o sorted_spenders(entries \ {first})

\* f"{acc}({amt})"
format_spender(entry) == entry.account_id \o "(" \o ToString(entry.total) \o ")"

top_spenders(self, timestamp, n) ==
    LET d == process_cashbacks(self, timestamp)
        entries == {[account_id |-> id, total |-> total_outgoing(d.self.accounts[id])] :
                       id \in ranked_accounts(d.self)}
        spenders == sorted_spenders(entries)
        count == IF n < Len(spenders) THEN n ELSE Len(spenders)
    IN Ret(d.self,
           ListResult([i \in 1..count |-> format_spender(spenders[i])]),
           d.credits)

----------------------------------------------------------------------------
(* get_payment_status *)

Shivani_get_payment_status(self, timestamp, account_id, payment) ==
    LET d == process_cashbacks(self, timestamp)
    IN IF ~Exists(d.self, account_id) THEN Ret(d.self, None, d.credits)
       ELSE IF d.self.accounts[account_id].merged_at # Absent
       THEN Ret(d.self, None, d.credits)
       ELSE LET txs == d.self.accounts[account_id].transactions
                payment_found == \E i \in 1..Len(txs) : txs[i].operation = payment
                cashback_deposited ==
                    \E i \in 1..Len(txs) : /\ txs[i].operation = "cashback"
                                           /\ txs[i].payment_id = payment
                                           /\ txs[i].deposited
            IN IF ~payment_found THEN Ret(d.self, None, d.credits)
               ELSE Ret(d.self,
                        StrResult(IF cashback_deposited THEN "CASHBACK_RECEIVED"
                                  ELSE "IN_PROGRESS"),
                        d.credits)

\* DaQuawn and Yejin share this text.
DaQuawn_get_payment_status(self, timestamp, account_id, payment) ==
    LET d == process_cashbacks(self, timestamp)
    IN IF ~Exists(d.self, account_id) THEN Ret(d.self, None, d.credits)
       ELSE LET txs == d.self.accounts[account_id].transactions
                payment_found == \E i \in 1..Len(txs) : txs[i].operation = payment
                cashbacks == SelectSeq(txs, LAMBDA tr : /\ tr.operation = "cashback"
                                                        /\ tr.payment_id = payment)
            IN IF ~payment_found THEN Ret(d.self, None, d.credits)
               ELSE IF cashbacks = <<>> THEN Ret(d.self, None, d.credits)
               ELSE Ret(d.self,
                        StrResult(IF Head(cashbacks).deposited THEN "CASHBACK_RECEIVED"
                                  ELSE "IN_PROGRESS"),
                        d.credits)

Andrea_get_payment_status(self, timestamp, account_id, payment) ==
    LET d == process_cashbacks(self, timestamp)
    IN IF ~Exists(d.self, account_id) THEN Ret(d.self, None, d.credits)
       ELSE LET txs == d.self.accounts[account_id].transactions
                withdrawals == SelectSeq(txs, LAMBDA tr : /\ tr.operation = "withdrawn"
                                                          /\ tr.payment_id = payment)
                HasCashback(list) ==
                    \E i \in 1..Len(list) : /\ list[i].operation = "cashback"
                                            /\ list[i].payment_id = payment
            IN IF withdrawals = <<>> THEN Ret(d.self, None, d.credits)
               ELSE IF HasCashback(txs)
               THEN Ret(d.self, StrResult("CASHBACK_RECEIVED"), d.credits)
               ELSE IF timestamp >= Head(withdrawals).timestamp + MILLISECONDS_IN_1_DAY
               THEN LET again == process_cashbacks(d.self, timestamp)
                    IN Ret(again.self,
                           StrResult(IF HasCashback(again.self.accounts[account_id].transactions)
                                     THEN "CASHBACK_RECEIVED" ELSE "IN_PROGRESS"),
                           d.credits \o again.credits)
               ELSE Ret(d.self, StrResult("IN_PROGRESS"), d.credits)

get_payment_status(self, timestamp, account_id, payment) ==
    CASE variant = "Shivani" -> Shivani_get_payment_status(self, timestamp, account_id, payment)
      [] variant = "Andrea" -> Andrea_get_payment_status(self, timestamp, account_id, payment)
      [] OTHER -> DaQuawn_get_payment_status(self, timestamp, account_id, payment)

----------------------------------------------------------------------------
(* merge_accounts *)

\* list.sort(key = timestamp): a stable sort.
RECURSIVE insert_by_timestamp(_, _)
insert_by_timestamp(sorted, tr) ==
    IF sorted = <<>> THEN <<tr>>
    ELSE IF Head(sorted).timestamp <= tr.timestamp
    THEN <<Head(sorted)>> \o insert_by_timestamp(Tail(sorted), tr)
    ELSE <<tr>> \o sorted

RECURSIVE sort_by_timestamp(_)
sort_by_timestamp(txs) ==
    IF txs = <<>> THEN <<>>
    ELSE insert_by_timestamp(sort_by_timestamp(SubSeq(txs, 1, Len(txs) - 1)),
                             txs[Len(txs)])

\* A copy that forgets that the cashback was deposited.
Shivani_tagged_copy_undeposited(tr, account_id_2, timestamp) ==
    [tr EXCEPT !.merged_from = account_id_2, !.merged_at = timestamp,
               !.deposited = FALSE]

\* The copy of a donor transaction that the survivor receives.
Shivani_tagged_copy(tr, account_id_2, timestamp) ==
    [tr EXCEPT !.merged_from = account_id_2, !.merged_at = timestamp]

Andrea_tagged_copy(tr, account_id_2, timestamp) ==
    [tr EXCEPT !.merged_at = timestamp]

Yejin_moved(tr, account_id_2, timestamp) == tr

\* A merge that leaves the balance of account_id_1 as it was.
merged_balance_kept(balance_1, balance_2) == balance_1

\* The balance of account_id_1 after the merge: balance += the donor's balance.
merged_balance(balance_1, balance_2) == balance_1 + balance_2

Shivani_merge_accounts(self, timestamp, account_id_1, account_id_2) ==
    LET d == process_cashbacks(self, timestamp)
    IN IF same_account(account_id_1, account_id_2) THEN Ret(d.self, BoolResult(FALSE), d.credits)
       ELSE IF ~Exists(d.self, account_id_1) \/ ~Exists(d.self, account_id_2)
       THEN Ret(d.self, BoolResult(FALSE), d.credits)
       ELSE IF \/ d.self.accounts[account_id_1].merged_at # Absent
               \/ d.self.accounts[account_id_2].merged_at # Absent
       THEN Ret(d.self, BoolResult(FALSE), d.credits)
       ELSE LET acc2 == d.self.accounts[account_id_2]
                after == [d.self EXCEPT
                   !.accounts[account_id_1].balance = merged_balance(@, acc2.balance),
                   !.accounts[account_id_1].transactions =
                       @ \o [i \in 1..Len(acc2.transactions) |->
                                Shivani_tagged_copy(acc2.transactions[i], account_id_2,
                                                    timestamp)],
                   !.accounts[account_id_2].merged_at = timestamp]
            IN Ret(after, BoolResult(TRUE), d.credits)

DaQuawn_merge_accounts(self, timestamp, account_id_1, account_id_2) ==
    LET d == process_cashbacks(self, timestamp)
    IN IF same_account(account_id_1, account_id_2) THEN Ret(d.self, BoolResult(FALSE), d.credits)
       ELSE IF ~Exists(d.self, account_id_1) \/ ~Exists(d.self, account_id_2)
       THEN Ret(d.self, BoolResult(FALSE), d.credits)
       ELSE LET acct1 == d.self.accounts[account_id_1]
                acct2 == d.self.accounts[account_id_2]
                merged_transactions ==
                    [i \in 1..Len(acct2.transactions) |->
                        Shivani_tagged_copy(acct2.transactions[i], account_id_2, timestamp)]
                new1 == [acct1 EXCEPT
                           !.transactions = sort_by_timestamp(@ \o merged_transactions),
                           !.balance = merged_balance(@, acct2.balance)]
                after == [d.self EXCEPT
                   !.archived_accounts =
                       PutKey(@, account_id_2,
                              [account_info |-> acct2, merged_at |-> timestamp]),
                   !.accounts = DelKey(PutKey(@, account_id_1, new1), account_id_2)]
            IN Ret(after, BoolResult(TRUE), d.credits)

Yejin_merge_accounts(self, timestamp, account_id_1, account_id_2) ==
    LET d == process_cashbacks(self, timestamp)
    IN IF same_account(account_id_1, account_id_2) THEN Ret(d.self, BoolResult(FALSE), d.credits)
       ELSE IF ~Exists(d.self, account_id_1) \/ ~Exists(d.self, account_id_2)
       THEN Ret(d.self, BoolResult(FALSE), d.credits)
       ELSE LET acc1_info == d.self.accounts[account_id_1]
                acc2_info == d.self.accounts[account_id_2]
                new1 == [acc1_info EXCEPT
                           !.balance = merged_balance(@, acc2_info.balance),
                           !.transactions =
                               @ \o [i \in 1..Len(acc2_info.transactions) |->
                                        Yejin_moved(acc2_info.transactions[i],
                                                    account_id_2, timestamp)]]
                after == [d.self EXCEPT
                   !.accounts = DelKey(PutKey(@, account_id_1, new1), account_id_2)]
            IN Ret(after, BoolResult(TRUE), d.credits)

\* A merge that leaves the pending cashback events with the donor.
Andrea_keep_events(events, account_id_1, account_id_2) == events

\* Every scheduled event of the donor is redirected to the survivor.
Andrea_redirect_events(events, account_id_1, account_id_2) ==
    [i \in 1..Len(events) |->
        [events[i] EXCEPT !.events =
            [j \in 1..Len(@) |->
                IF @[j].account_id = account_id_2
                THEN [@[j] EXCEPT !.account_id = account_id_1]
                ELSE @[j]]]]

Min(x, y) == IF x <= y THEN x ELSE y

Andrea_merged_created_at(created1, created2) == Min(created1, created2)

Andrea_merge_accounts(self, timestamp, account_id_1, account_id_2) ==
    LET d == process_cashbacks(self, timestamp)
    IN IF same_account(account_id_1, account_id_2) THEN Ret(d.self, BoolResult(FALSE), d.credits)
       ELSE IF ~Exists(d.self, account_id_1) \/ ~Exists(d.self, account_id_2)
       THEN Ret(d.self, BoolResult(FALSE), d.credits)
       ELSE LET account1 == d.self.accounts[account_id_1]
                account2 == d.self.accounts[account_id_2]
                copies == [i \in 1..Len(account2.transactions) |->
                              Andrea_tagged_copy(account2.transactions[i], account_id_2,
                                                 timestamp)]
                new1 == [account1 EXCEPT
                           !.creation_time =
                               Andrea_merged_created_at(account1.creation_time,
                                                        account2.creation_time),
                           !.balance = merged_balance(@, account2.balance),
                           !.transactions = sort_by_timestamp(@ \o copies)]
                after == [d.self EXCEPT
                   !.cashback_events =
                       Andrea_redirect_events(@, account_id_1, account_id_2),
                   !.accounts = DelKey(PutKey(@, account_id_1, new1), account_id_2)]
            IN Ret(after, BoolResult(TRUE), d.credits)

merge_accounts(self, timestamp, account_id_1, account_id_2) ==
    CASE variant = "Shivani" -> Shivani_merge_accounts(self, timestamp, account_id_1, account_id_2)
      [] variant = "DaQuawn" -> DaQuawn_merge_accounts(self, timestamp, account_id_1, account_id_2)
      [] variant = "Andrea" -> Andrea_merge_accounts(self, timestamp, account_id_1, account_id_2)
      [] OTHER -> Yejin_merge_accounts(self, timestamp, account_id_1, account_id_2)

----------------------------------------------------------------------------
(* get_balance *)

\* The effect of one transaction on the replayed balance.
Shivani_signed_amount(tr) ==
    CASE tr.operation \in {"deposit", "transfer_in", "cashback"} -> tr.amount
      [] tr.operation = "transfer_out" -> 0 - tr.amount
      [] StartsWith(tr.operation, "payment") -> 0 - tr.amount
      [] OTHER -> 0

DaQuawn_signed_amount(tr) ==
    CASE tr.operation \in {"cashback", "deposited", "transferred in"} -> tr.amount
      [] tr.operation = "transferred out" -> 0 - tr.amount
      [] StartsWith(tr.operation, "payment") -> 0 - tr.amount
      [] OTHER -> 0

Andrea_signed_amount(tr) ==
    CASE tr.operation \in {"deposited", "transferred in", "cashback"} -> tr.amount
      [] tr.operation \in {"transferred out", "withdrawn", "paid"} -> 0 - tr.amount
      [] OTHER -> 0

signed_amount(tr) ==
    CASE variant = "Shivani" -> Shivani_signed_amount(tr)
      [] variant = "Andrea" -> Andrea_signed_amount(tr)
      [] OTHER -> DaQuawn_signed_amount(tr)

\* Transactions that came from a merge count only from the merge time on.
merge_visible(tr, time_at) == tr.merged_at = Absent \/ tr.merged_at <= time_at

Yejin_merge_visible(tr, time_at) == TRUE

\* A replay that leaves out the transactions made exactly at time_at.
counts_before(tr, time_at) ==
    /\ tr.timestamp < time_at
    /\ IF variant = "Yejin" THEN Yejin_merge_visible(tr, time_at)
       ELSE merge_visible(tr, time_at)

counts_at(tr, time_at) ==
    /\ tr.timestamp <= time_at
    /\ IF variant = "Yejin" THEN Yejin_merge_visible(tr, time_at)
       ELSE merge_visible(tr, time_at)

RECURSIVE replay(_, _)
replay(txs, time_at) ==
    IF txs = <<>> THEN 0
    ELSE (IF counts_at(Head(txs), time_at) THEN signed_amount(Head(txs)) ELSE 0)
         + replay(Tail(txs), time_at)

Shivani_get_balance(self, timestamp, account_id, time_at) ==
    LET d == process_cashbacks(self, timestamp)
    IN IF ~Exists(d.self, account_id) THEN Ret(d.self, None, d.credits)
       ELSE LET acc == d.self.accounts[account_id]
            IN IF acc.creation_time > time_at THEN Ret(d.self, None, d.credits)
               ELSE IF acc.merged_at # Absent /\ time_at >= acc.merged_at
               THEN Ret(d.self, None, d.credits)
               ELSE Ret(d.self, IntResult(replay(acc.transactions, time_at)), d.credits)

\* The time up to which DaQuawn's get_balance processes cashbacks.
DaQuawn_get_balance_drain_time(timestamp, time_at) == time_at

DaQuawn_get_balance(self, timestamp, account_id, time_at) ==
    LET d == process_cashbacks(self, DaQuawn_get_balance_drain_time(timestamp, time_at))
        active == Exists(d.self, account_id)
        archived == account_id \in DOMAIN d.self.archived_accounts
        use_archived ==
            IF active /\ archived
            THEN time_at < d.self.accounts[account_id].creation_time
            ELSE ~active
    IN IF ~active /\ ~archived THEN Ret(d.self, None, d.credits)
       ELSE LET account_info ==
                    IF use_archived
                    THEN d.self.archived_accounts[account_id].account_info
                    ELSE d.self.accounts[account_id]
            IN IF /\ use_archived
                  /\ time_at >= d.self.archived_accounts[account_id].merged_at
               THEN Ret(d.self, None, d.credits)
               ELSE IF account_info.creation_time > time_at
               THEN Ret(d.self, None, d.credits)
               ELSE Ret(d.self, IntResult(replay(account_info.transactions, time_at)),
                        d.credits)

Yejin_get_balance(self, timestamp, account_id, time_at) ==
    IF ~Exists(self, account_id) THEN Ret(self, None, <<>>)
    ELSE LET transactions == self.accounts[account_id].transactions
             created == {transactions[i].timestamp : i \in
                            {j \in 1..Len(transactions) :
                                transactions[j].operation = "created account"}}
         IN IF transactions = <<>> THEN Ret(self, None, <<>>)
            ELSE IF created = {} THEN Ret(self, None, <<>>)
            ELSE IF \A c \in created : time_at < c THEN Ret(self, None, <<>>)
            ELSE Ret(self, IntResult(replay(transactions, time_at)), <<>>)

Andrea_get_balance(self, timestamp, account_id, time_at) ==
    LET d == process_cashbacks(self, timestamp)
    IN IF ~Exists(d.self, account_id) THEN Ret(d.self, None, d.credits)
       ELSE LET transactions == d.self.accounts[account_id].transactions
                existed == \E i \in 1..Len(transactions) :
                               transactions[i].timestamp <= time_at
            IN IF ~existed THEN Ret(d.self, None, d.credits)
               ELSE Ret(d.self, IntResult(replay(transactions, time_at)), d.credits)

get_balance(self, timestamp, account_id, time_at) ==
    CASE variant = "Shivani" -> Shivani_get_balance(self, timestamp, account_id, time_at)
      [] variant = "DaQuawn" -> DaQuawn_get_balance(self, timestamp, account_id, time_at)
      [] variant = "Andrea" -> Andrea_get_balance(self, timestamp, account_id, time_at)
      [] OTHER -> Yejin_get_balance(self, timestamp, account_id, time_at)

----------------------------------------------------------------------------
(* The state machine: a single caller issuing calls at non-decreasing times *)

PaymentArgs == {PaymentId(1), PaymentId(2), "deposit"}
SpenderCounts == {1, 2}

\* self.__init__ of the chosen implementation
InitOf(v) ==
    /\ variant = v
    /\ accounts = <<>>
    /\ archived_accounts = <<>>
    /\ cashback_events = <<>>
    /\ payment_counter = IF v = "Shivani" THEN 1 ELSE 0
    /\ withdraw_count = 0
    /\ clock = 0
    /\ credit_log = <<>>
    /\ issued = <<>>
    /\ merges = <<>>
    /\ totals = [deposited |-> 0, paid |-> 0]
    /\ creations = <<>>
    /\ ledger = <<>>
    /\ calls = 0

Init == \E v \in Variants : InitOf(v)

Stamped(credits) ==
    [i \in 1..Len(credits) |-> [credits[i] EXCEPT !.called_at = clock]]

\* One ledger entry: the account whose balance moved, when and by how much;
\* `owner` follows the account through later merges.
Moved(account_id, amount) ==
    [account_id |-> account_id, owner |-> account_id, timestamp |-> clock,
     amount |-> amount]

\* The object after a call that returned r; `changed` says that the call did its
\* own work (it was not rejected and is not a query).
Returns(r, changed) ==
    /\ changed => calls < MaxCalls
    /\ accounts' = r.self.accounts
    /\ archived_accounts' = r.self.archived_accounts
    /\ cashback_events' = r.self.cashback_events
    /\ payment_counter' = r.self.payment_counter
    /\ withdraw_count' = r.self.withdraw_count
    /\ credit_log' = credit_log \o Stamped(r.credits)
    /\ calls' = IF changed THEN calls + 1 ELSE calls
    /\ UNCHANGED <<variant, clock>>

AdvanceClock ==
    /\ \E t \in {clock + 1, clock + MILLISECONDS_IN_1_DAY} :
          /\ t \in Times
          /\ clock' = t
    /\ UNCHANGED <<variant, accounts, archived_accounts, cashback_events, payment_counter,
                   withdraw_count, credit_log, issued, merges, totals, creations, ledger, calls>>

CreateAccount ==
    \E account_id \in AccountIds :
        LET r == create_account(Self, clock, account_id)
        IN /\ Returns(r, r.result.ok)
           /\ creations' = IF r.result.ok
                         THEN Append(creations, [account_id |-> account_id,
                                                 timestamp |-> clock])
                         ELSE creations
           /\ UNCHANGED <<issued, merges, totals, ledger>>

Deposit ==
    \E account_id \in AccountIds, amount \in DepositAmounts :
        LET r == deposit(Self, clock, account_id, amount)
        IN /\ Returns(r, r.result.ok)
           /\ totals' = IF r.result.ok THEN [totals EXCEPT !.deposited = @ + amount]
                        ELSE totals
           /\ ledger' = IF r.result.ok
                        THEN Append(ledger, Moved(account_id, amount))
                        ELSE ledger
           /\ UNCHANGED <<issued, merges, creations>>

Transfer ==
    \E source_account_id \in AccountIds, target_account_id \in AccountIds,
       amount \in TransferAmounts :
        LET r == transfer(Self, clock, source_account_id, target_account_id, amount)
        IN /\ Returns(r, r.result.ok)
           /\ ledger' = IF r.result.ok
                        THEN ledger \o <<Moved(source_account_id, 0 - amount),
                                         Moved(target_account_id, amount)>>
                        ELSE ledger
           /\ UNCHANGED <<issued, merges, totals, creations>>

TopSpenders ==
    \E n \in SpenderCounts :
        LET r == top_spenders(Self, clock, n)
        IN /\ Returns(r, FALSE)
           /\ UNCHANGED <<issued, merges, totals, creations, ledger>>

Pay ==
    \E account_id \in AccountIds, amount \in PayAmounts :
        LET r == pay(Self, clock, account_id, amount)
        IN /\ Returns(r, r.result.ok)
           /\ issued' = IF r.result.ok
                        THEN Append(issued, [payment_id |-> r.result.str,
                                             account_id |-> account_id,
                                             owner |-> account_id,
                                             timestamp |-> clock,
                                             amount |-> amount])
                        ELSE issued
           /\ totals' = IF r.result.ok THEN [totals EXCEPT !.paid = @ + amount]
                        ELSE totals
           /\ ledger' = IF r.result.ok
                        THEN Append(ledger, Moved(account_id, 0 - amount))
                        ELSE ledger
           /\ UNCHANGED <<merges, creations>>

GetPaymentStatus ==
    \E account_id \in AccountIds, payment \in PaymentArgs :
        LET r == get_payment_status(Self, clock, account_id, payment)
        IN /\ Returns(r, FALSE)
           /\ UNCHANGED <<issued, merges, totals, creations, ledger>>

MergeAccounts ==
    \E account_id_1 \in AccountIds, account_id_2 \in AccountIds :
        LET r == merge_accounts(Self, clock, account_id_1, account_id_2)
        IN /\ Returns(r, r.result.ok)
           /\ merges' = IF r.result.ok
                        THEN Append(merges, [timestamp |-> clock,
                                             creations |-> Len(creations),
                                             account_id_1 |-> account_id_1,
                                             account_id_2 |-> account_id_2,
                                             balance_1 |-> accounts[account_id_1].balance,
                                             balance_2 |-> accounts[account_id_2].balance])
                        ELSE merges
           /\ issued' = IF r.result.ok
                        THEN [i \in 1..Len(issued) |->
                                 IF issued[i].owner = account_id_2
                                 THEN [issued[i] EXCEPT !.owner = account_id_1]
                                 ELSE issued[i]]
                        ELSE issued
           /\ ledger' = IF r.result.ok
                        THEN [i \in 1..Len(ledger) |->
                                 IF ledger[i].owner = account_id_2
                                 THEN [ledger[i] EXCEPT !.owner = account_id_1]
                                 ELSE ledger[i]]
                        ELSE ledger
           /\ UNCHANGED <<totals, creations>>

GetBalance ==
    \E account_id \in AccountIds, time_at \in Times :
        LET r == get_balance(Self, clock, account_id, time_at)
        IN /\ Returns(r, FALSE)
           /\ UNCHANGED <<issued, merges, totals, creations, ledger>>

Next ==
    \/ AdvanceClock
    \/ CreateAccount
    \/ Deposit
    \/ Transfer
    \/ TopSpenders
    \/ Pay
    \/ GetPaymentStatus
    \/ MergeAccounts
    \/ GetBalance

Spec == Init /\ [][Next]_vars

SpecShivani == InitOf("Shivani") /\ [][Next]_vars
SpecDaQuawn == InitOf("DaQuawn") /\ [][Next]_vars
SpecAndrea == InitOf("Andrea") /\ [][Next]_vars
SpecYejin == InitOf("Yejin") /\ [][Next]_vars

----------------------------------------------------------------------------
(* What the history says, independently of the implementation *)

IsActive(self, account_id) ==
    /\ account_id \in DOMAIN self.accounts
    /\ self.accounts[account_id].merged_at = Absent

ActiveIds(self) == {id \in AccountIds : IsActive(self, id)}

DueTime(payment) == payment.timestamp + MILLISECONDS_IN_1_DAY

\* 2% of the withdrawn amount, rounded down to the nearest integer.
ExpectedCashback(amount) == CHOOSE c \in 0..amount : c * 100 <= amount * 2 /\ amount * 2 < (c + 1) * 100

CreditsOf(log, payment_id) == {k \in 1..Len(log) : log[k].payment_id = payment_id}

IsCredited(log, payment_id) == CreditsOf(log, payment_id) # {}

RECURSIVE SumOver(_, _)
SumOver(S, f) ==
    IF S = {} THEN 0
    ELSE LET x == CHOOSE y \in S : TRUE IN f[x] + SumOver(S \ {x}, f)

\* The payments whose cashback is due at time `now`, belongs to account_id by the
\* history of pays and merges, and has not been credited yet.
DuePayments(account_id, now) ==
    {i \in 1..Len(issued) : /\ issued[i].owner = account_id
                            /\ DueTime(issued[i]) <= now
                            /\ ~IsCredited(credit_log, issued[i].payment_id)}

PendingDue(account_id, now) ==
    SumOver(DuePayments(account_id, now),
            [i \in 1..Len(issued) |-> ExpectedCashback(issued[i].amount)])

BalanceWithDue(account_id) == accounts[account_id].balance + PendingDue(account_id, clock)

----------------------------------------------------------------------------
(* C1 *)

\* The calls C1 is about, each with what it returns from the current state.
DrainingCalls ==
    {deposit(Self, clock, id, amount) : id \in AccountIds, amount \in DepositAmounts}
    \cup {transfer(Self, clock, src, dst, amount) :
             src \in AccountIds, dst \in AccountIds, amount \in TransferAmounts}
    \cup {pay(Self, clock, id, amount) : id \in AccountIds, amount \in PayAmounts}
    \cup {top_spenders(Self, clock, n) : n \in SpenderCounts}
    \cup {get_payment_status(Self, clock, id, payment) :
             id \in AccountIds, payment \in PaymentArgs}
    \cup {merge_accounts(Self, clock, id1, id2) : id1 \in AccountIds, id2 \in AccountIds}

AllDueCredited(r) ==
    \A i \in 1..Len(issued) :
        DueTime(issued[i]) <= clock =>
            IsCredited(credit_log \o r.credits, issued[i].payment_id)

DepositSeesCashback ==
    \A id \in ActiveIds(Self), amount \in DepositAmounts :
        deposit(Self, clock, id, amount).result = IntResult(BalanceWithDue(id) + amount)

TransferSeesCashback ==
    \A src \in ActiveIds(Self) : \A dst \in ActiveIds(Self) \ {src} :
      \A amount \in TransferAmounts :
        transfer(Self, clock, src, dst, amount).result =
            IF BalanceWithDue(src) >= amount
            THEN IntResult(BalanceWithDue(src) - amount)
            ELSE None

PaySeesCashback ==
    \A id \in ActiveIds(Self), amount \in PayAmounts :
        LET r == pay(Self, clock, id, amount)
        IN /\ r.result.ok <=> BalanceWithDue(id) >= amount
           /\ r.result.ok => r.self.accounts[id].balance = BalanceWithDue(id) - amount

QueriesSeeCashback ==
    \A id \in ActiveIds(Self) :
        /\ \A n \in SpenderCounts :
              top_spenders(Self, clock, n).self.accounts[id].balance = BalanceWithDue(id)
        /\ \A payment \in PaymentArgs :
              get_payment_status(Self, clock, id, payment).self.accounts[id].balance
                  = BalanceWithDue(id)

MergeSeesCashback ==
    \A id1 \in ActiveIds(Self) : \A id2 \in ActiveIds(Self) \ {id1} :
        merge_accounts(Self, clock, id1, id2).self.accounts[id1].balance
            = BalanceWithDue(id1) + BalanceWithDue(id2)

\* C1: every deposit, transfer, pay, top_spenders, get_payment_status and
\* merge_accounts call issued at the caller's current time works on balances to
\* which every cashback due at or before that time has already been added: after
\* the call every such cashback is credited, and the call's checks and result are
\* those computed from balance + cashback due.
C1_DrainBeforeOperation ==
    /\ \A r \in DrainingCalls : AllDueCredited(r)
    /\ DepositSeesCashback
    /\ TransferSeesCashback
    /\ PaySeesCashback
    /\ QueriesSeeCashback
    /\ MergeSeesCashback

\* A transfer issued exactly at the due time of a cashback went through although
\* the balance without the cashback was below the amount.
C1_Witness ==
    \E k \in 1..Len(credit_log) :
        LET c == credit_log[k]
            acc == accounts[c.account_id]
        IN /\ c.called_at = c.due
           /\ c.account_id \in DOMAIN accounts
           /\ acc.balance = 0
           /\ c.amount = 2
           /\ \E i \in 1..Len(acc.transactions) :
                 /\ acc.transactions[i].timestamp = c.due
                 /\ acc.transactions[i].operation \in {"transfer_out", "transferred out"}
                 /\ acc.transactions[i].amount = 2

----------------------------------------------------------------------------
(* C2 *)

\* The active account(s) holding a cashback record of the payment that is marked
\* deposited.
FlagSet(self, payment_id) ==
    \E id \in ActiveIds(self) :
        \E i \in 1..Len(self.accounts[id].transactions) :
            LET tr == self.accounts[id].transactions[i]
            IN tr.operation = "cashback" /\ tr.payment_id = payment_id /\ tr.deposited

CreditCount(log, payment_id) == Cardinality(CreditsOf(log, payment_id))

ExactlyOnceStep ==
    \A i \in 1..Len(issued') :
        LET payment_id == issued'[i].payment_id
        IN /\ CreditCount(credit_log', payment_id) <= 1
           /\ FlagSet(Self, payment_id) => FlagSet(Self', payment_id)
           /\ (~FlagSet(Self, payment_id) /\ FlagSet(Self', payment_id))
                 => CreditCount(credit_log', payment_id)
                        = CreditCount(credit_log, payment_id) + 1

----------------------------------------------------------------------------
(* C3 *)

IssuedAs(payment_id) == {i \in 1..Len(issued) : issued[i].payment_id = payment_id}

\* C3: a cashback is never credited by a call whose timestamp is below the
\* cashback's due timestamp (pay time + 86400000), whatever time_at a get_balance
\* call names; and no deposited flag is set on a cashback that is not yet due at
\* the caller's current time.
C3_NoEarlyCashback ==
    /\ \A k \in 1..Len(credit_log) :
          /\ credit_log[k].due <= credit_log[k].called_at
          /\ \A i \in IssuedAs(credit_log[k].payment_id) :
                DueTime(issued[i]) <= credit_log[k].called_at
    /\ \A i \in 1..Len(issued) :
          FlagSet(Self, issued[i].payment_id) => DueTime(issued[i]) <= clock

----------------------------------------------------------------------------
(* C4 *)

\* Every public operation, each with what it returns from the current state.
AnyCalls ==
    DrainingCalls
    \cup {create_account(Self, clock, id) : id \in AccountIds}
    \cup {get_balance(Self, clock, id, time_at) : id \in AccountIds, time_at \in Times}

\* The payments whose payer was merged into another account afterwards.
Redirected == {i \in 1..Len(issued) : issued[i].owner # issued[i].account_id}

RedirectedCreditIn(r, i) ==
    LET log == credit_log \o r.credits
    IN /\ CreditCount(log, issued[i].payment_id) = 1
       /\ \A k \in CreditsOf(r.credits, issued[i].payment_id) :
             /\ r.credits[k].account_id = issued[i].owner
             /\ r.credits[k].amount = ExpectedCashback(issued[i].amount)
             /\ r.self.accounts[issued[i].owner].balance
                    >= accounts[issued[i].owner].balance + r.credits[k].amount

\* C4: when the payer of a pending cashback has been merged into another account,
\* then after the first operation whose timestamp reaches the cashback's due
\* timestamp the cashback has been added, once, to the balance of the account that
\* currently survives the payer, and to no other account.
C4_CashbackRedirect ==
    \A r \in AnyCalls :
        \A i \in Redirected :
            DueTime(issued[i]) <= clock => RedirectedCreditIn(r, i)

----------------------------------------------------------------------------
(* C5 *)

Drained == process_cashbacks(Self, clock).self

\* C5: after a successful merge_accounts(now, id1, id2) the balance of id1 is the
\* sum of the balances id1 and id2 had after the drain at now.
C5_MergePreservesTotal ==
    \A id1 \in AccountIds, id2 \in AccountIds :
        LET r == merge_accounts(Self, clock, id1, id2)
        IN r.result.ok =>
              r.self.accounts[id1].balance
                  = Drained.accounts[id1].balance + Drained.accounts[id2].balance

\* Two accounts holding 100 each were merged and the survivor holds 200.
C5_Witness ==
    /\ Len(merges) = 1
    /\ merges[1].balance_1 = 100
    /\ merges[1].balance_2 = 100
    /\ IsActive(Self, merges[1].account_id_1)
    /\ accounts[merges[1].account_id_1].balance = 200

----------------------------------------------------------------------------
(* C6 *)

\* C6: the balance of every account, active, merged-away or archived, is never
\* negative.
C6_NonNegativeBalances ==
    /\ \A id \in DOMAIN accounts : accounts[id].balance >= 0
    /\ \A id \in DOMAIN archived_accounts :
          archived_accounts[id].account_info.balance >= 0

\* An account paid out all it held, and a transfer of 2 from it is then refused.
C6_Witness ==
    /\ Len(issued) = 1
    /\ IsActive(Self, issued[1].account_id)
    /\ accounts[issued[1].account_id].balance = 0
    /\ \E dst \in ActiveIds(Self) \ {issued[1].account_id} :
          ~transfer(Self, clock, issued[1].account_id, dst, 2).result.ok

----------------------------------------------------------------------------
(* C7 *)

ActiveBalances(self) ==
    SumOver(ActiveIds(self), [id \in AccountIds |->
                                 IF id \in DOMAIN self.accounts
                                 THEN self.accounts[id].balance ELSE 0])

CreditedTotal == SumAmounts(credit_log)

\* C7: the balances of the active accounts add up to the successful deposits plus
\* the cashback credited so far minus the successful pays; transfers, merges and
\* cashback still in flight do not enter the sum.
C7_Conservation ==
    ActiveBalances(Self) = totals.deposited + CreditedTotal - totals.paid

\* Money was deposited, paid out, merged and a cashback credited.
C7_Witness ==
    /\ Len(merges) = 1
    /\ Len(credit_log) = 1
    /\ totals.paid = 100
    /\ ActiveBalances(Self) = 2

----------------------------------------------------------------------------
(* C8 *)

\* The fold of a transaction log at `now`: deposits, transfers-in and credited
\* cashback add, transfers-out and pays subtract.
RECURSIVE CreditedFold(_, _)
CreditedFold(txs, now) ==
    IF txs = <<>> THEN 0
    ELSE LET tr == Head(txs)
             counted == /\ tr.timestamp <= now
                        /\ tr.operation = "cashback" => tr.deposited
         IN (IF counted THEN signed_amount(tr) ELSE 0) + CreditedFold(Tail(txs), now)

\* The balance a deposit of 100 at `now` reports, less the 100 it adds.
ReportedBalance(self, id) == deposit(self, clock, id, 100).result.int - 100

\* C8: immediately after any operation at `now`, the cached balance of every
\* active account equals the fold of its transaction log at `now`, and
\* get_balance(now, id, now) returns the balance that deposit reports.
C8_BalanceIsProjection ==
    \A r \in AnyCalls :
        \A id \in ActiveIds(r.self) :
            /\ r.self.accounts[id].balance
                   = CreditedFold(r.self.accounts[id].transactions, clock)
            /\ get_balance(r.self, clock, id, clock).result
                   = IntResult(ReportedBalance(r.self, id))

----------------------------------------------------------------------------
(* C9 *)

\* C9: right after merge_accounts(T, id1, id2), get_balance of id1 as of a time
\* before T returns what it returned before the merge (no record of id2 counts),
\* and as of a time at or after T returns the replay of id1's own log plus the
\* replay of id2's log as of that time.
C9_ProvenanceGating ==
    \A id1 \in AccountIds, id2 \in AccountIds :
        LET m == merge_accounts(Self, clock, id1, id2)
        IN m.result.ok =>
              \A time_at \in Times :
                  LET after == get_balance(m.self, clock, id1, time_at).result
                  IN IF time_at < clock
                     THEN after = get_balance(Drained, clock, id1, time_at).result
                     ELSE after = IntResult(
                              replay(Drained.accounts[id1].transactions, time_at)
                              + replay(Drained.accounts[id2].transactions, time_at))

----------------------------------------------------------------------------
(* C10 *)

\* The creation time of an account: the field the implementation keeps, or the
\* timestamp of its first record where it keeps none.
CreatedAt(acc) ==
    IF acc.creation_time # Absent THEN acc.creation_time
    ELSE LET stamps == {acc.transactions[i].timestamp : i \in 1..Len(acc.transactions)}
         IN CHOOSE t \in stamps : \A u \in stamps : t <= u

\* C10: right after merge_accounts(T, id1, id2), get_balance of id2 returns None
\* as of every time at or after T, and as of every earlier time at or after the
\* creation of id2 it returns what it returned before the merge.
C10_DonorHistory ==
    \A id1 \in AccountIds, id2 \in AccountIds :
        LET m == merge_accounts(Self, clock, id1, id2)
        IN m.result.ok =>
              \A time_at \in Times :
                  LET after == get_balance(m.self, clock, id2, time_at).result
                      before == get_balance(Drained, clock, id2, time_at).result
                  IN IF time_at >= clock THEN after = None
                     ELSE CreatedAt(Drained.accounts[id2]) <= time_at
                              => after = before

----------------------------------------------------------------------------
(* C11 *)

\* The calls that add to an account's history: deposit, transfer, pay and
\* merge_accounts, each with what it returns from the current state.
LaterEvents ==
    {deposit(Self, clock, id, amount) : id \in AccountIds, amount \in DepositAmounts}
    \cup {transfer(Self, clock, src, dst, amount) :
             src \in AccountIds, dst \in AccountIds, amount \in TransferAmounts}
    \cup {pay(Self, clock, id, amount) : id \in AccountIds, amount \in PayAmounts}
    \cup {merge_accounts(Self, clock, id1, id2) : id1 \in AccountIds, id2 \in AccountIds}

\* C11: for every id and every asOf before the current time, get_balance(., id,
\* asOf) returns the same value (None included) before and after any deposit,
\* transfer, pay or merge_accounts issued at the current time.
C11_HistoricalImmutability ==
    \A id \in AccountIds :
        \A time_at \in {t \in Times : t < clock} :
            \A r \in LaterEvents :
                get_balance(r.self, clock, id, time_at).result
                    = get_balance(Self, clock, id, time_at).result

----------------------------------------------------------------------------
(* C12 *)

\* The timestamps of the successful create_account calls for an id.
CreationsOf(id) ==
    {creations[i].timestamp :
        i \in {k \in 1..Len(creations) : creations[k].account_id = id}}

\* The id did not exist at time_at in any of its eras: it was never created, or
\* time_at is before its first creation.
NotYetCreated(id, time_at) == \A c \in CreationsOf(id) : time_at < c

\* C12: get_balance(now, id, asOf) returns None when id was never created and
\* when asOf is before the creation of id, also after id has absorbed an older
\* account through merge_accounts.
C12_NoneBeforeCreation ==
    \A id \in AccountIds :
        \A time_at \in Times :
            NotYetCreated(id, time_at)
                => get_balance(Self, clock, id, time_at).result = None

----------------------------------------------------------------------------
(* C13 *)

\* What the operations recorded up to time_at on the account (its own and those
\* of the accounts merged into it) add up to: deposits and transfers-in, less
\* transfers-out and pays.
MovedBy(id, time_at) ==
    SumAmounts(SelectSeq(ledger, LAMBDA e : e.owner = id /\ e.timestamp <= time_at))

\* The cashback of the pays whose due timestamp is at or before time_at.
CashbackBy(id, time_at) ==
    LET due == {i \in 1..Len(issued) :
                   issued[i].owner = id /\ DueTime(issued[i]) <= time_at}
    IN SumOver(due, [i \in 1..Len(issued) |-> ExpectedCashback(issued[i].amount)])

\* time_at lies in the current era of the active account id and after every
\* merge into it, so that all the records it owns count.
SettledAt(id, time_at) ==
    /\ IsActive(Self, id)
    /\ time_at <= clock
    /\ \A c \in CreationsOf(id) : c <= time_at
    /\ \A i \in 1..Len(merges) :
          merges[i].account_id_1 = id => merges[i].timestamp <= time_at

\* C13: for asOf <= now, get_balance(now, id, asOf) is the sum of every operation
\* on id with timestamp <= asOf (those at asOf included), plus the cashback of
\* exactly the pays with pay time + 86400000 <= asOf.
C13_PointInTimeReplay ==
    \A id \in AccountIds :
        \A time_at \in Times :
            SettledAt(id, time_at)
                => get_balance(Self, clock, id, time_at).result
                       = IntResult(MovedBy(id, time_at) + CashbackBy(id, time_at))

\* An account deposited 100 and paid 100 at time 1; a day later its balance as
\* of 1 and as of 86400000 is 0 and as of 86400001 it is the cashback, 2.
C13_Witness ==
    /\ clock = MILLISECONDS_IN_1_DAY + 1
    /\ Len(issued) = 1
    /\ issued[1].timestamp = 1
    /\ merges = <<>>
    /\ LET id == issued[1].account_id
       IN /\ SettledAt(id, 1)
          /\ MovedBy(id, 0) = 0
          /\ get_balance(Self, clock, id, 1).result = IntResult(0)
          /\ get_balance(Self, clock, id, MILLISECONDS_IN_1_DAY).result = IntResult(0)
          /\ get_balance(Self, clock, id, clock).result = IntResult(2)

----------------------------------------------------------------------------
(* C14 *)

\* C14: get_balance(now, id, asOf) with asOf > now leaves out every cashback that
\* is still undeposited after the drain at now (due in (now, asOf]): it returns
\* what the operations and the cashback due up to now add up to.
C14_NoLookAhead ==
    \A id \in ActiveIds(Self) :
        \A time_at \in {t \in Times : t > clock} :
            get_balance(Self, clock, id, time_at).result
                = IntResult(MovedBy(id, clock) + CashbackBy(id, clock))

----------------------------------------------------------------------------
(* C15 *)

MergesAway(id) == {i \in 1..Len(merges) : merges[i].account_id_2 = id}

\* id had one era that was merged away (and absorbed no account itself before
\* that) and exists again: it was created twice and merged away once in between.
Reused(id) ==
    /\ IsActive(Self, id)
    /\ Cardinality({i \in 1..Len(creations) : creations[i].account_id = id}) = 2
    /\ Cardinality(MergesAway(id)) = 1
    /\ \A i \in 1..Len(merges) :
          merges[i].account_id_1 = id
              => \A j \in MergesAway(id) : merges[j].timestamp <= merges[i].timestamp

FirstCreation(id) == CHOOSE c \in CreationsOf(id) : \A d \in CreationsOf(id) : c <= d

LastCreation(id) == CHOOSE c \in CreationsOf(id) : \A d \in CreationsOf(id) : d <= c

MergedAwayAt(id) == merges[CHOOSE i \in MergesAway(id) : TRUE].timestamp

\* What the first era of id held as of time_at: its own operations and the
\* cashback of its own pays.
OldEraBalance(id, time_at) ==
    LET own == SelectSeq(ledger, LAMBDA e : e.account_id = id /\ e.timestamp <= time_at)
        due == {i \in 1..Len(issued) :
                   issued[i].account_id = id /\ DueTime(issued[i]) <= time_at}
    IN SumAmounts(own)
       + SumOver(due, [i \in 1..Len(issued) |-> ExpectedCashback(issued[i].amount)])

\* C15: when id was merged away at T and re-created at C, get_balance(now, id,
\* asOf) answers from the archived account for asOf < C (its balance as of asOf
\* from its creation up to T, None from T on) and from the new account for
\* asOf >= C.
C15_EraResolution ==
    \A id \in AccountIds :
        Reused(id) =>
            \A time_at \in {t \in Times : t <= clock} :
                LET result == get_balance(Self, clock, id, time_at).result
                IN CASE time_at < FirstCreation(id) -> result = None
                     [] time_at < MergedAwayAt(id) ->
                            result = IntResult(OldEraBalance(id, time_at))
                     [] time_at < LastCreation(id) -> result = None
                     [] OTHER -> result.ok

----------------------------------------------------------------------------
(* C16 *)

\* C16: get_balance(now, id, asOf) leaves the state as it was or as the drain at
\* now leaves it (balances, logs, merge status, creation times, payment counter),
\* and the state after the call does not depend on asOf.
C16_GetBalanceReadOnly ==
    \A id \in AccountIds :
        \A time_at \in Times :
            LET after == get_balance(Self, clock, id, time_at).self
            IN /\ after \in {Self, Drained}
               /\ after = get_balance(Self, clock, id, clock).self

----------------------------------------------------------------------------
(* C17 *)

\* Amounts tried for the next pay: one the cashback of an earlier pay covers, and
\* the amount the behaviours pay.
NextPayAmounts == {2} \cup PayAmounts

\* C17: the k-th successful pay of the system returned "payment" + k, and the
\* next pay, on whichever account and after whichever merges and re-creations,
\* returns "payment" + (number of successful pays so far + 1) when it succeeds;
\* a rejected pay leaves the numbering where it was.
C17_GlobalPaymentOrdinal ==
    /\ \A k \in 1..Len(issued) : issued[k].payment_id = PaymentId(k)
    /\ \A id \in AccountIds :
          \A amount \in NextPayAmounts :
              LET r == pay(Self, clock, id, amount)
              IN /\ r.result.ok => r.result = StrResult(PaymentId(Len(issued) + 1))
                 /\ ~r.result.ok =>
                       \A other \in AccountIds :
                           LET again == pay(r.self, clock, other, amount)
                           IN again.result.ok
                                 => again.result = StrResult(PaymentId(Len(issued) + 1))

\* One pay was made, its payer was merged into another account, and the next
\* pay, by the survivor, returns payment2.
C17_Witness ==
    /\ Len(issued) = 1
    /\ Len(merges) = 1
    /\ issued[1].owner # issued[1].account_id
    /\ pay(Self, clock, issued[1].owner, 2).result = StrResult("payment2")

----------------------------------------------------------------------------
(* C18 *)

\* The successful pays whose reference is `payment` and whose record is now held
\* by account id (its own pays and those of the accounts merged into it).
PaysHeld(id, payment) ==
    {k \in 1..Len(issued) : issued[k].payment_id = payment /\ issued[k].owner = id}

StatusAt(k, now) ==
    StrResult(IF now < DueTime(issued[k]) THEN "IN_PROGRESS" ELSE "CASHBACK_RECEIVED")

\* C18: for a reference a successful pay returned at time t on the active account
\* id, get_payment_status(now, id, ref) is IN_PROGRESS while now < t + 86400000
\* and CASHBACK_RECEIVED from then on; for an id that does not exist, a reference
\* issued to another account and any string that is not the reference of a pay
\* recorded on id it is None.
C18_PaymentStatus ==
    \A id \in AccountIds :
        \A payment \in PaymentArgs :
            LET result == get_payment_status(Self, clock, id, payment).result
            IN /\ \A k \in PaysHeld(id, payment) :
                      (IsActive(Self, id) /\ issued[k].account_id = id)
                          => result = StatusAt(k, clock)
               /\ PaysHeld(id, payment) = {} => result = None

----------------------------------------------------------------------------
(* C19 *)

\* C19: a reference issued to an account that was merged away afterwards is a
\* valid key for get_payment_status on the account that survives it: the answer
\* is CASHBACK_RECEIVED exactly when the cashback has been credited, which it is
\* once now reaches the due timestamp, and IN_PROGRESS before; asked of the
\* merged-away account, the same reference gives None.
C19_ReferencesSurviveMerge ==
    \A k \in Redirected :
        LET ref == issued[k].payment_id
            donor == issued[k].account_id
            r == get_payment_status(Self, clock, issued[k].owner, ref)
            credited == IsCredited(credit_log \o r.credits, ref)
        IN /\ IsActive(Self, issued[k].owner) =>
                 /\ r.result = StrResult(IF credited THEN "CASHBACK_RECEIVED"
                                         ELSE "IN_PROGRESS")
                 /\ DueTime(issued[k]) <= clock => credited
           /\ ~IsActive(Self, donor) =>
                 get_payment_status(Self, clock, donor, ref).result = None

\* The payer of payment1 was merged into another account; a day after the pay
\* the survivor is told CASHBACK_RECEIVED and the merged-away payer None.
C19_Witness ==
    /\ Len(issued) = 1
    /\ issued[1].owner # issued[1].account_id
    /\ ~IsActive(Self, issued[1].account_id)
    /\ DueTime(issued[1]) <= clock
    /\ get_payment_status(Self, clock, issued[1].owner, "payment1").result
           = StrResult("CASHBACK_RECEIVED")
    /\ get_payment_status(Self, clock, issued[1].account_id, "payment1").result = None

----------------------------------------------------------------------------
(* C20 *)

\* The ids whose latest successful call was the merge that made them a donor:
\* merged away and not created again since.
MergedAwayIds ==
    {id \in AccountIds :
        \E i \in MergesAway(id) :
            \A j \in 1..Len(creations) :
                creations[j].account_id = id => j <= merges[i].creations}

\* The forward operations that name id, each with what it returns from the
\* current state and the value that says it was rejected.
ForwardCalls(id) ==
    {[r |-> deposit(Self, clock, id, amount), rejected |-> None] :
        amount \in DepositAmounts}
    \cup {[r |-> pay(Self, clock, id, amount), rejected |-> None] :
             amount \in NextPayAmounts}
    \cup {[r |-> transfer(Self, clock, id, other, amount), rejected |-> None] :
             other \in AccountIds, amount \in TransferAmounts}
    \cup {[r |-> transfer(Self, clock, other, id, amount), rejected |-> None] :
             other \in AccountIds, amount \in TransferAmounts}
    \cup {[r |-> merge_accounts(Self, clock, id, other), rejected |-> BoolResult(FALSE)] :
             other \in AccountIds}
    \cup {[r |-> merge_accounts(Self, clock, other, id), rejected |-> BoolResult(FALSE)] :
             other \in AccountIds}

\* C20: while an id is merged away, deposit and pay on it, transfer from it or to
\* it, and merge_accounts with it as either argument are rejected (None / false)
\* and change no balance and no log: the state after the call is the one the
\* drain at now, which every operation starts with, leaves.
C20_MergedAwayIsDead ==
    \A id \in MergedAwayIds :
        \A c \in ForwardCalls(id) :
            c.r.result = c.rejected /\ c.r.self = Drained

\* An account that held 100 was merged into another one, which now holds the
\* 100; a transfer of 2 from the survivor to the merged-away id is turned down.
C20_Witness ==
    /\ Len(merges) = 1
    /\ merges[1].account_id_2 \in MergedAwayIds
    /\ merges[1].balance_2 = 100
    /\ accounts[merges[1].account_id_1].balance = 100
    /\ transfer(Self, clock, merges[1].account_id_1, merges[1].account_id_2, 2).result = None

----------------------------------------------------------------------------
(* C21 *)

\* By the history of the successful calls: the id was created and its latest
\* creation has not been followed by a merge that made it a donor.
Live(id) == CreationsOf(id) # {} /\ id \notin MergedAwayIds

\* C21: merge_accounts(now, id1, id2) returns false and leaves every balance,
\* log and merge status as the drain at now leaves them when id1 = id2, when
\* either id does not exist and when either id is merged away.
C21_MergeRejected ==
    \A id1 \in AccountIds, id2 \in AccountIds :
        (id1 = id2 \/ ~Live(id1) \/ ~Live(id2))
            => LET r == merge_accounts(Self, clock, id1, id2)
               IN r.result = BoolResult(FALSE) /\ r.self = Drained

\* One account holds at least 100 and the other id is merged away: merging the
\* account with itself and with the merged-away id, either way round, is refused.
C21_Witness ==
    \E id \in AccountIds, gone \in MergedAwayIds :
        /\ Live(id)
        /\ accounts[id].balance >= 100
        /\ merge_accounts(Self, clock, id, id).result = BoolResult(FALSE)
        /\ merge_accounts(Self, clock, id, gone).result = BoolResult(FALSE)
        /\ merge_accounts(Self, clock, gone, id).result = BoolResult(FALSE)


----------------------------------------------------------------------------
(* C22: a successful transfer *)

TransferOutOps == {"transfer_out", "transferred out"}
TransferInOps == {"transfer_in", "transferred in"}

\* log is base followed by exactly one record of the given kind, stamped with
\* the current time and carrying the amount.
OneMoreRecord(log, base, ops, amount) ==
    /\ Len(log) = Len(base) + 1
    /\ SubSeq(log, 1, Len(base)) = base
    /\ log[Len(log)].operation \in ops
    /\ log[Len(log)].timestamp = clock
    /\ log[Len(log)].amount = amount

\* C22: a transfer between two distinct active accounts whose source holds at
\* least the amount after the drain takes the amount from the source, adds it
\* to the target, appends exactly one transfer-out record to the source's log
\* and one transfer-in record to the target's, changes nothing else, and
\* returns the source's new balance.
C22_TransferMoves ==
    \A src \in AccountIds, dst \in AccountIds, amount \in TransferAmounts \cup PayAmounts :
        (src # dst /\ Live(src) /\ Live(dst)
            /\ Drained.accounts[src].balance >= amount)
            => LET r == transfer(Self, clock, src, dst, amount)
                   before == Drained.accounts
                   after == r.self.accounts
               IN /\ r.result = IntResult(before[src].balance - amount)
                  /\ DOMAIN after = DOMAIN before
                  /\ after[src].balance = before[src].balance - amount
                  /\ after[dst].balance = before[dst].balance + amount
                  /\ OneMoreRecord(after[src].transactions, before[src].transactions,
                                   TransferOutOps, amount)
                  /\ OneMoreRecord(after[dst].transactions, before[dst].transactions,
                                   TransferInOps, amount)
                  /\ r.self = [Drained EXCEPT
                                 !.accounts[src].balance = after[src].balance,
                                 !.accounts[src].transactions = after[src].transactions,
                                 !.accounts[dst].balance = after[dst].balance,
                                 !.accounts[dst].transactions = after[dst].transactions]

\* A transfer of 2 has been made out of an account that held 100: the source
\* holds 98, the target holds 2 and the two records are the last of their logs.
C22_Witness ==
    \E src \in AccountIds, dst \in AccountIds :
        /\ src # dst /\ Live(src) /\ Live(dst)
        /\ accounts[src].balance = 98
        /\ accounts[dst].balance = 2
        /\ accounts[src].transactions[Len(accounts[src].transactions)].operation
               \in TransferOutOps
        /\ accounts[dst].transactions[Len(accounts[dst].transactions)].operation
               \in TransferInOps


----------------------------------------------------------------------------
(* C23: a rejected transfer *)

\* Amounts tried by the rejection claims: one that an account of 100 covers,
\* the whole of it, and one more than it.
TriedAmounts == {2, 100, 101}

\* C23: transfer returns None and leaves every balance and log as the drain at
\* now leaves them when source and target are the same id, whatever the
\* balance, when either id is absent or merged away, and when the source holds
\* less than the amount.
C23_TransferRejected ==
    \A src \in AccountIds, dst \in AccountIds, amount \in TriedAmounts :
        (\/ src = dst
         \/ ~Live(src) \/ ~Live(dst)
         \/ (Live(src) /\ Drained.accounts[src].balance < amount))
            => LET r == transfer(Self, clock, src, dst, amount)
               IN r.result = None /\ r.self = Drained

\* Two active accounts, one holding at least 100 and one holding less: a
\* transfer from the rich account to itself and a transfer of more than the
\* poor account holds are both refused.
C23_Witness ==
    \E rich \in AccountIds, poor \in AccountIds :
        /\ Live(rich) /\ Live(poor)
        /\ accounts[rich].balance >= 100
        /\ Drained.accounts[poor].balance < 100
        /\ transfer(Self, clock, rich, rich, 100).result = None
        /\ transfer(Self, clock, poor, rich, 100).result = None


----------------------------------------------------------------------------
(* C24: a successful pay *)

\* The credits a drain makes for one payment.
CreditsFor(credits, payment_id) ==
    SelectSeq(credits, LAMBDA c : c.payment_id = payment_id)

\* The log of the account holds a record of the payment made now.
PaymentRecorded(self, id, payment_id, amount) ==
    \E i \in 1..Len(self.accounts[id].transactions) :
        LET tr == self.accounts[id].transactions[i]
        IN /\ tr.timestamp = clock
           /\ tr.amount = amount
           /\ tr.operation # "cashback"
           /\ payment_id \in {tr.operation, tr.payment_id}

\* pay takes the amount at once, records the payment and schedules floor(2%) of
\* it for now + 86400000: a drain one millisecond earlier credits nothing for the
\* payment, the drain at that time adds exactly the cashback to the payer.
PayTakesAndSchedules ==
    \A id \in AccountIds, amount \in NextPayAmounts :
        (Live(id) /\ Drained.accounts[id].balance >= amount)
            => LET r == pay(Self, clock, id, amount)
                   due == clock + MILLISECONDS_IN_1_DAY
                   early == process_cashbacks(r.self, due - 1)
                   late == process_cashbacks(r.self, due)
                   mine == CreditsFor(late.credits, r.result.str)
               IN /\ r.result.ok /\ r.result.str # ""
                  /\ r.self.accounts[id].balance = Drained.accounts[id].balance - amount
                  /\ PaymentRecorded(r.self, id, r.result.str, amount)
                  /\ CreditsFor(early.credits, r.result.str) = <<>>
                  /\ Len(mine) = 1
                  /\ mine[1].account_id = id
                  /\ mine[1].amount = ExpectedCashback(amount)
                  /\ late.self.accounts[id].balance
                        = r.self.accounts[id].balance
                          + SumAmounts(SelectSeq(late.credits,
                                                 LAMBDA c : c.account_id = id))

\* No cashback has entered a balance through a call made before its due time.
NotBeforeDue ==
    \A k \in 1..Len(credit_log) :
        \A i \in IssuedAs(credit_log[k].payment_id) :
            DueTime(issued[i]) <= credit_log[k].called_at

\* Once any operation is processed at or after the due time, the cashback is in
\* a balance, with exactly floor(2%) of the amount paid.
CreditedOnceDue ==
    \A r \in AnyCalls :
        \A i \in 1..Len(issued) :
            DueTime(issued[i]) <= clock
                => LET log == credit_log \o r.credits
                   IN /\ IsCredited(log, issued[i].payment_id)
                      /\ \A k \in CreditsOf(log, issued[i].payment_id) :
                            log[k].amount = ExpectedCashback(issued[i].amount)

\* C24: a pay by an active account that holds the amount after the drain takes
\* the amount from the balance at once, records the payment and schedules a
\* cashback of floor(amount * 2 / 100); the cashback is in no balance before an
\* operation with a timestamp of at least pay time + 86400000 is processed, and
\* once such an operation is processed the balance has grown by exactly it.
C24_SuccessfulPay ==
    /\ PayTakesAndSchedules
    /\ NotBeforeDue
    /\ CreditedOnceDue


----------------------------------------------------------------------------
(* C25: a rejected pay *)

\* C25: pay returns None when the id is absent, when it is merged away and when
\* the account holds less than the amount after the drain; the balances, the
\* logs, the scheduled cashbacks and the payment counter are then as the drain
\* at now leaves them.
C25_PayRejected ==
    \A id \in AccountIds, amount \in TriedAmounts :
        (~Live(id) \/ Drained.accounts[id].balance < amount)
            => LET r == pay(Self, clock, id, amount)
               IN /\ r.result = None
                  /\ r.self = Drained
                  /\ \A other \in AccountIds :
                        pay(r.self, clock, other, 0).result
                            = pay(Drained, clock, other, 0).result

\* A payment of 100 was made, its payer holds less than 100 and the other id is
\* merged away: a second payment of 100 by either is refused, and the next
\* payment that succeeds is numbered right after the first.
C25_Witness ==
    \E id \in AccountIds, gone \in MergedAwayIds :
        /\ Live(id)
        /\ Len(issued) = 1
        /\ Drained.accounts[id].balance < 100
        /\ pay(Self, clock, id, 100).result = None
        /\ pay(Self, clock, gone, 100).result = None
        /\ pay(pay(Self, clock, id, 100).self, clock, id, 0).result
              = StrResult(PaymentId(2))


----------------------------------------------------------------------------
(* C26: create_account *)

CreatedOps == {"created", "created account"}

\* The account is active, holds nothing, dates from the current time and its log
\* is one creation record.
FreshAccount(self, id) ==
    /\ IsActive(self, id)
    /\ self.accounts[id].balance = 0
    /\ Len(self.accounts[id].transactions) = 1
    /\ self.accounts[id].transactions[1].operation \in CreatedOps
    /\ self.accounts[id].transactions[1].timestamp = clock
    /\ CreatedAt(self.accounts[id]) = clock

\* C26: create_account(now, id) returns false and leaves the account as it is
\* (or as the drain at now leaves it, where the call drains) when id is an
\* active account; otherwise it returns true and id is an active account with
\* balance 0, created at now, whose log holds a single creation record.
C26_CreateAccount ==
    \A id \in AccountIds :
        LET r == create_account(Self, clock, id)
        IN IF Live(id)
           THEN r.result = BoolResult(FALSE) /\ r.self \in {Self, Drained}
           ELSE r.result = BoolResult(TRUE) /\ FreshAccount(r.self, id)


----------------------------------------------------------------------------
(* C27: id reuse after a merge *)

\* The payments made under the id, in whichever era.
PaymentsOf(id) == {issued[i].payment_id : i \in {j \in 1..Len(issued) : issued[j].account_id = id}}

Listed(result, entry) == \E i \in 1..Len(result.list) : result.list[i] = entry

\* The account re-created on a merged-away id starts from nothing: balance 0 now
\* and as of every later time, none of the old payments, an outgoing total of 0.
StartsAfresh ==
    \A id \in MergedAwayIds :
        LET r == create_account(Self, clock, id)
        IN /\ r.result = BoolResult(TRUE)
           /\ IsActive(r.self, id)
           /\ r.self.accounts[id].balance = 0
           /\ \A payment \in PaymentsOf(id) :
                 get_payment_status(r.self, clock, id, payment).result = None
           /\ Listed(top_spenders(r.self, clock, Len(IdOrder)).result,
                     format_spender([account_id |-> id, total |-> 0]))
           /\ \A time_at \in {t \in Times : t >= clock} :
                 get_balance(r.self, clock, id, time_at).result = IntResult(0)

\* Whatever the re-created account reports from its creation on is made of the
\* operations on the new account only.
NewEraOnly ==
    \A id \in AccountIds :
        (Live(id) /\ MergesAway(id) # {})
            => \A time_at \in {t \in Times : LastCreation(id) <= t /\ t <= clock} :
                  SettledAt(id, time_at)
                      => get_balance(Self, clock, id, time_at).result
                             = IntResult(MovedBy(id, time_at) + CashbackBy(id, time_at))

\* Every cashback that a drain credits after the call r goes to the account that
\* survives the payer, and every cashback that is due is credited.
CreditsGoToSurvivor(r) ==
    \A time_at \in {t \in Times : t >= clock} :
        LET d == process_cashbacks(r.self, time_at)
            settled == credit_log \o r.credits
        IN /\ \A k \in 1..Len(d.credits) :
                 \A i \in IssuedAs(d.credits[k].payment_id) :
                     d.credits[k].account_id = issued[i].owner
           /\ \A i \in 1..Len(issued) :
                 (DueTime(issued[i]) <= time_at
                     /\ ~IsCredited(settled, issued[i].payment_id))
                     => IsCredited(d.credits, issued[i].payment_id)

\* C27: create_account on a merged-away id returns true and starts a disjoint
\* history: balance 0, none of the old account's payments or outgoing totals,
\* get_balance from the re-creation on reflects only the new account's
\* operations, and the cashback pending from the old account's pays goes to the
\* old account's survivor, never to the re-created id.
C27_IdReuse ==
    /\ StartsAfresh
    /\ NewEraOnly
    /\ CreditsGoToSurvivor(Ret(Self, None, <<>>))
    /\ \A id \in MergedAwayIds :
          CreditsGoToSurvivor(create_account(Self, clock, id))

\* An account paid 100 and was merged into the other before the cashback fell
\* due; its id is created again and the drain a day later credits the survivor.
C27_Witness ==
    \E id \in MergedAwayIds :
        LET r == create_account(Self, clock, id)
            d == process_cashbacks(r.self, clock + MILLISECONDS_IN_1_DAY)
        IN /\ PaymentsOf(id) # {}
           /\ r.result = BoolResult(TRUE)
           /\ Len(d.credits) = 1
           /\ d.credits[1].account_id # id
           /\ d.credits[1].amount = 2
           /\ d.self.accounts[id].balance = 0


----------------------------------------------------------------------------
(* C28: deposit *)

DepositedOps == {"deposit", "deposited"}

\* C28: deposit(now, id, amount) on an active account returns the balance after
\* the drain at now plus the amount, stores it as the new balance, appends one
\* deposit record and changes no other account; on an id that is absent it
\* returns None and changes nothing beyond the drain.
C28_Deposit ==
    \A id \in AccountIds, amount \in DepositAmounts \cup TransferAmounts :
        LET r == deposit(Self, clock, id, amount)
        IN IF Live(id)
           THEN LET balance == Drained.accounts[id].balance + amount
                    log == r.self.accounts[id].transactions
                IN /\ r.result = IntResult(balance)
                   /\ OneMoreRecord(log, Drained.accounts[id].transactions,
                                    DepositedOps, amount)
                   /\ r.self = [Drained EXCEPT !.accounts[id].balance = balance,
                                               !.accounts[id].transactions = log]
           ELSE r.result = None /\ r.self = Drained

\* An account holds a credited cashback of 2 next to a deposit of 100 made after
\* it: the deposit returned 102; a deposit to an id that does not exist is
\* refused.
C28_Witness ==
    \E id \in AccountIds, absent \in AccountIds :
        /\ Live(id) /\ ~Live(absent)
        /\ accounts[id].balance = 102
        /\ credit_log # <<>>
        /\ accounts[id].transactions[Len(accounts[id].transactions)].operation
               \in DepositedOps
        /\ deposit(Self, clock, absent, 100).result = None


----------------------------------------------------------------------------
(* C29: top_spenders *)

\* What the account has sent out by the history of calls: its successful
\* transfers out and pays, and those of the accounts merged into it.
Spent(id) ==
    0 - SumAmounts(SelectSeq(ledger, LAMBDA e : e.owner = id /\ e.amount < 0))

LiveIds == {id \in AccountIds : Live(id)}

\* The active accounts by descending outgoing total, ties by ascending id.
Ranking ==
    CHOOSE s \in [1..Cardinality(LiveIds) -> LiveIds] :
        /\ \A i, j \in DOMAIN s : i # j => s[i] # s[j]
        /\ \A i, j \in DOMAIN s :
              i < j => \/ Spent(s[i]) > Spent(s[j])
                       \/ Spent(s[i]) = Spent(s[j]) /\ Rank(s[i]) < Rank(s[j])

Entry(id) == id \o "(" \o ToString(Spent(id)) \o ")"

\* The numbers of entries asked for, from none to more than there are accounts.
AskedCounts == 0..(Len(IdOrder) + 1)

\* C29: top_spenders(now, n) returns min(n, number of active accounts) entries
\* "<id>(<total>)", total being the sum of the account's successful transfers
\* out and pays (never deposits, transfers in or cashback), by descending total
\* with ties broken by ascending id, accounts with total 0 included.
C29_TopSpenders ==
    \A n \in AskedCounts :
        LET count == IF n < Cardinality(LiveIds) THEN n ELSE Cardinality(LiveIds)
        IN top_spenders(Self, clock, n).result
               = ListResult([i \in 1..count |-> Entry(Ranking[i])])

\* The account that is later in the alphabet paid 100 and received a cashback,
\* the other spent nothing: it is listed first, the other second with total 0,
\* and asking for one entry gives the first alone.
C29_Witness ==
    /\ credit_log # <<>>
    /\ top_spenders(Self, clock, 2).result = ListResult(<<"b(100)", "a(0)">>)
    /\ top_spenders(Self, clock, 1).result = ListResult(<<"b(100)">>)


----------------------------------------------------------------------------
(* C30: top_spenders after a merge *)

SpenderEntry(id, total) == id \o "(" \o ToString(total) \o ")"

AllSpenders(self) == top_spenders(self, clock, Len(IdOrder) + 1).result

\* Right after merge_accounts(now, id1, id2) the ranking lists the remaining
\* active accounts only, id1 with what id1 and id2 had sent out before; a pay by
\* id1 afterwards adds its amount to that total.
MergeFoldsSpending ==
    \A id1 \in AccountIds, id2 \in AccountIds :
        LET m == merge_accounts(Self, clock, id1, id2)
            merged_total == Spent(id1) + Spent(id2)
            total_of(id) == IF id = id1 THEN merged_total ELSE Spent(id)
            listed == AllSpenders(m.self).list
        IN m.result.ok =>
              /\ \A i \in 1..Len(listed) :
                    \E id \in LiveIds \ {id2} : listed[i] = SpenderEntry(id, total_of(id))
              /\ Listed(AllSpenders(m.self), SpenderEntry(id1, merged_total))
              /\ \A amount \in NextPayAmounts :
                    LET p == pay(m.self, clock, id1, amount)
                    IN p.result.ok =>
                          Listed(AllSpenders(p.self),
                                 SpenderEntry(id1, merged_total + amount))

\* While an id is merged away every entry of the ranking is that of an active
\* account.
DonorNotRanked ==
    MergedAwayIds # {} =>
        LET listed == AllSpenders(Self).list
        IN /\ Len(listed) = Cardinality(LiveIds)
           /\ \A i \in 1..Len(listed) : \E id \in LiveIds : listed[i] = Entry(id)

\* C30: after merge_accounts(T, id1, id2) the donor id2 appears in no
\* top_spenders result until it is created again, and the total reported for
\* id1 is what id1 and id2 had sent out before the merge plus what id1 sends out
\* afterwards.
C30_TopSpendersAfterMerge ==
    /\ MergeFoldsSpending
    /\ DonorNotRanked

\* An account that had paid 100 was merged into one that had spent nothing: the
\* ranking is the survivor alone, with 100.
C30_Witness ==
    /\ Len(merges) = 1
    /\ Len(issued) = 1
    /\ issued[1].account_id = merges[1].account_id_2
    /\ merges[1].account_id_2 \in MergedAwayIds
    /\ AllSpenders(Self)
          = ListResult(<<SpenderEntry(merges[1].account_id_1, 100)>>)


----------------------------------------------------------------------------
(* C31: creation time of the survivor *)

\* C31: after a successful merge_accounts(now, id1, id2) the creation time of id1
\* is the smaller of the creation times id1 and id2 had before the merge.
C31_MergedCreatedAt ==
    \A id1 \in AccountIds, id2 \in AccountIds :
        LET m == merge_accounts(Self, clock, id1, id2)
        IN m.result.ok =>
              CreatedAt(m.self.accounts[id1])
                  = Min(CreatedAt(Drained.accounts[id1]), CreatedAt(Drained.accounts[id2]))


----------------------------------------------------------------------------
(* C32: the donor is frozen *)

NothingRetained == <<>>

\* What the implementation keeps of a merged-away account: the account marked
\* merged (Shivani) or its archived copy (DaQuawn); the others keep nothing.
Retained(self, id) ==
    IF id \in DOMAIN self.accounts /\ self.accounts[id].merged_at # Absent
    THEN <<self.accounts[id].balance, self.accounts[id].transactions,
           self.accounts[id].merged_at>>
    ELSE IF id \in DOMAIN self.archived_accounts
    THEN <<self.archived_accounts[id].account_info.balance,
           self.archived_accounts[id].account_info.transactions,
           self.archived_accounts[id].merged_at>>
    ELSE NothingRetained

DonorFrozenStep ==
    \A id \in AccountIds :
        Retained(Self, id) # NothingRetained => Retained(Self', id) = Retained(Self, id)

\* C32: once merge_accounts(T, id1, id2) has marked id2 merged away at T, the
\* balance and the log retained for id2 are changed by no later operation.
C32_DonorFrozen == [][DonorFrozenStep]_vars

\* The same, for every operation but the re-creation of the id and what follows it.
DonorFrozenUntilRecreated ==
    [][\A id \in AccountIds :
          (Retained(Self, id) # NothingRetained /\ ~Live(id) /\ ~Live(id)')
              => Retained(Self', id) = Retained(Self, id)]_vars


----------------------------------------------------------------------------
(* C33: every public operation drains *)

\* No active account holds an undeposited cashback record that is due, and no
\* scheduled event that is due is left.
NothingDuePending(self) ==
    /\ \A id \in ActiveIds(self) :
          \A i \in 1..Len(self.accounts[id].transactions) :
              LET tr == self.accounts[id].transactions[i]
              IN (tr.operation = "cashback" /\ variant # "Andrea" /\ tr.timestamp <= clock)
                     => tr.deposited
    /\ \A i \in 1..Len(self.cashback_events) :
          self.cashback_events[i].time <= clock => self.cashback_events[i].events = <<>>

\* C33: right after any public operation issued at now returns, create_account
\* and get_balance included, successful or not, no active account holds a
\* cashback with due timestamp <= now that is uncredited and no scheduler entry
\* with due timestamp <= now is pending.
C33_EveryOperationDrains ==
    \A r \in AnyCalls :
        /\ NothingDuePending(r.self)
        /\ \A i \in 1..Len(issued) :
              DueTime(issued[i]) <= clock
                  => IsCredited(credit_log \o r.credits, issued[i].payment_id)


----------------------------------------------------------------------------
(* C34: the log is append-only *)

\* The record is the one it was, but for the deposited flag of a cashback record.
SameRecord(old, new) ==
    \/ new = old
    \/ old.operation = "cashback" /\ new = [old EXCEPT !.deposited = new.deposited]

\* The old log is the beginning of the new one.
Extends(new, old) ==
    /\ Len(old) <= Len(new)
    /\ \A i \in 1..Len(old) : SameRecord(old[i], new[i])

AppendOnlyStep ==
    \A id \in AccountIds :
        (IsActive(Self, id) /\ IsActive(Self', id))
            => Extends(accounts'[id].transactions, accounts[id].transactions)

\* C34: every operation leaves the records that an account's log already holds
\* in place and in order and only appends records at the end (a merge appends
\* the donor's records after the survivor's); of an existing record only the
\* deposited flag of a cashback record may change.
C34_AppendOnlyLog == [][AppendOnlyStep]_vars


----------------------------------------------------------------------------
(* C35: the drain is idempotent *)

\* The times a drain is run at: the times of the calls and a day after each.
DrainTimes == Times \cup {t + MILLISECONDS_IN_1_DAY : t \in Times}

\* C35: a drain at now followed by a drain at any now' <= now leaves balances,
\* logs, deposited flags and the pending schedule as the first drain left them,
\* and credits nothing.
C35_DrainIdempotent ==
    \A now \in DrainTimes :
        LET first == process_cashbacks(Self, now)
        IN \A again \in {t \in DrainTimes : t <= now} :
              LET second == process_cashbacks(first.self, again)
              IN second.self = first.self /\ second.credits = <<>>

\* A cashback of 2 is due and uncredited: the first drain credits it, the second
\* drain at the same time credits nothing.
C35_Witness ==
    LET first == process_cashbacks(Self, clock)
    IN /\ Len(first.credits) = 1
       /\ first.credits[1].amount = 2
       /\ first.self # Self
       /\ process_cashbacks(first.self, clock).credits = <<>>


----------------------------------------------------------------------------
(* C36: the order of a drain *)

\* The due timestamps never go down along the sequence of credits.
InDueOrder(credits) ==
    \A i, j \in 1..Len(credits) : i < j => credits[i].due <= credits[j].due

\* Each drain credits the cashbacks of each account in ascending order of due
\* timestamp.
DrainsInDueOrder(self) ==
    \A now \in DrainTimes :
        LET credits == process_cashbacks(self, now).credits
        IN \A id \in AccountIds :
              InDueOrder(SelectSeq(credits, LAMBDA c : c.account_id = id))

\* The objects one more pay, and then one more merge, lead to from here.
AfterPay == {Self} \cup {pay(Self, clock, id, amount).self :
                            id \in AccountIds, amount \in PayAmounts}

AfterPayAndMerge ==
    AfterPay \cup {merge_accounts(self, clock, id1, id2).self :
                      self \in AfterPay, id1 \in AccountIds, id2 \in AccountIds}

\* C36: a drain that applies cashbacks with several distinct due timestamps
\* applies them in ascending order of due timestamp, so that the cashback
\* records of an account are credited, and where the drain appends them appear
\* in its log, in non-decreasing timestamp order.
C36_DrainOrder ==
    \A self \in AfterPayAndMerge : DrainsInDueOrder(self)


----------------------------------------------------------------------------
(* C37: every pending cashback has a live target *)

\* The payments whose cashback has not been credited after the call r.
PendingAfter(r) ==
    {i \in 1..Len(issued) : ~IsCredited(credit_log \o r.credits, issued[i].payment_id)}

\* Every scheduled event names an active account, and every pending cashback is
\* credited to an active account, the one that survives its payer, by the drain
\* at its due time.
PendingHasTarget(r) ==
    /\ \A i \in 1..Len(r.self.cashback_events) :
          \A j \in 1..Len(r.self.cashback_events[i].events) :
              IsActive(r.self, r.self.cashback_events[i].events[j].account_id)
    /\ \A i \in PendingAfter(r) :
          LET d == process_cashbacks(r.self, DueTime(issued[i]))
              mine == CreditsFor(d.credits, issued[i].payment_id)
          IN /\ IsActive(r.self, issued[i].owner)
             /\ Len(mine) = 1
             /\ mine[1].account_id = issued[i].owner

----------------------------------------------------------------------------
(* C38: payment status is monotonic *)

Received == StrResult("CASHBACK_RECEIVED")

\* What get_payment_status answers now for the payment on its current owner.
OwnerStatus(i) ==
    get_payment_status(Self, clock, issued[i].owner, issued[i].payment_id).result

MonotonicStatusStep ==
    \A i \in 1..Len(issued) :
        OwnerStatus(i) = Received => OwnerStatus(i)' = Received

\* C38: once get_payment_status reports CASHBACK_RECEIVED for a payment on the
\* account that owns it, every later get_payment_status for that payment on its
\* owner of the time (the same account, or its survivor after a merge) reports
\* CASHBACK_RECEIVED.
C38_StatusMonotonic == [][MonotonicStatusStep]_vars

\* The status of a payment is CASHBACK_RECEIVED on the survivor of its payer.
C38_Witness ==
    \E i \in 1..Len(issued) :
        /\ issued[i].owner # issued[i].account_id
        /\ IsCredited(credit_log, issued[i].payment_id)
        /\ OwnerStatus(i) = Received


----------------------------------------------------------------------------
(* C39: a single owner per payment reference *)

\* In the object self each payment is answered on its owner and nowhere else.
SingleOwnerIn(self) ==
    \A i \in 1..Len(issued) :
        /\ IsActive(self, issued[i].owner)
        /\ \A id \in AccountIds :
              get_payment_status(self, clock, id, issued[i].payment_id).result.ok
                  <=> id = issued[i].owner

\* C39: for each reference returned by a successful pay, get_payment_status
\* returns a status for exactly one account id, the active account that paid or
\* the survivor it was merged into, and None for every other id, a re-created
\* payer included.
C39_SingleOwner ==
    /\ SingleOwnerIn(Self)
    /\ \A id \in MergedAwayIds : SingleOwnerIn(create_account(Self, clock, id).self)

\* The payer of a payment is merged away: once its id is created again the
\* status is answered on the survivor and not on the re-created payer.
C39_Witness ==
    \E i \in 1..Len(issued) :
        LET payer == issued[i].account_id
            r == create_account(Self, clock, payer)
        IN /\ issued[i].owner # payer
           /\ payer \in MergedAwayIds
           /\ r.result.ok
           /\ get_payment_status(r.self, clock, issued[i].owner,
                                 issued[i].payment_id).result.ok
           /\ ~get_payment_status(r.self, clock, payer, issued[i].payment_id).result.ok


----------------------------------------------------------------------------
(* C40: outgoing totals are conserved *)

\* The sum of the totals that top_spenders lists.
ReportedSpending ==
    SumOver(ranked_accounts(Drained),
            [id \in AccountIds |->
                IF id \in DOMAIN Drained.accounts
                THEN total_outgoing(Drained.accounts[id]) ELSE 0])

\* The amounts of all successful transfers and pays so far.
SentSoFar == 0 - SumAmounts(SelectSeq(ledger, LAMBDA e : e.amount < 0))

\* C40: the totals that top_spenders reports for the active accounts add up to
\* the amounts of all successful transfers and pays processed so far; merges
\* neither lose nor duplicate spending.
C40_SpendingConserved ==
    /\ ReportedSpending = SentSoFar
    /\ ranked_accounts(Drained) = LiveIds

\* An account that had paid 100 is merged away and the 100 is still reported.
C40_Witness ==
    /\ Len(merges) = 1
    /\ Len(issued) = 1
    /\ issued[1].account_id \in MergedAwayIds
    /\ SentSoFar = 100
    /\ ReportedSpending = 100

====
